---- MODULE Spec2Model ----
(***************************************************************************)
(* A model of sol-rpc-router: the routing table and its two selectors      *)
(* (src/src/state.rs), the health monitor (src/src/health.rs) and the      *)
(* SIGHUP reload handler (src/src/main.rs).                                *)
(*                                                                         *)
(* Arc<AtomicBool> cells live in a heap `flags`; a RuntimeBackend holds    *)
(* the index of its cell, so that two tables sharing a cell and two tables *)
(* holding different cells are different states.                           *)
(***************************************************************************)
EXTENDS Integers, Sequences, FiniteSets, TLC

VARIABLES
    state,        \* the RouterState behind Arc<ArcSwap<RouterState>>
    flags,        \* heap of the Arc<AtomicBool> cells ever allocated
    statuses,     \* HealthState.statuses: label -> BackendHealthStatus
    monitor,      \* the health_check_loop task: its arguments and its position
    reloads,      \* number of tables installed by the SIGHUP handler
    reload_log,   \* the last message logged by the SIGHUP handler
    lastSel,      \* the last selector call: its arguments and what it returned
    req,          \* one HTTP request inside handlers::proxy
    session,      \* one WebSocket session: ws_proxy and handle_ws_connection
    ext,          \* one request inside the extract_rpc_method middleware
    mock,         \* the MockKeyStore of the tests and its last call
    redis_db,     \* the credential store: the key's record and its counter
    cache,        \* RedisKeyStore.cache: the key's entry and its age
    calls,        \* the validate_key calls in flight, each at its await point
    audit         \* what the administrator did and how long ago

sideVars == <<session, ext, mock>>
reqVars == <<req, sideVars>>
ksVars == <<redis_db, cache, calls, audit>>

vars == <<state, flags, statuses, monitor, reloads, reload_log, lastSel,
          reqVars, ksVars>>

----------------------------------------------------------------------------
(* Bounds of the model *)

MaxWeight == 2
MaxCount == 3
MaxReloads == 2

Labels == {"u1", "u2", "u3"}
Methods == {"getBlock", "getSlot"}

----------------------------------------------------------------------------
(* Option<T> *)

None == <<>>
Some(v) == <<v>>
IsSome(o) == o # <<>>
Unwrap(o) == o[1]

Url(l) == <<"http", l>>
WsUrl(l) == <<"ws", l>>

\* iter().map(|b| b.config.weight).sum(): a u32 sum, which the weights of
\* the model (at most MaxWeight each) never bring near 2^32
RECURSIVE SumWeights(_)
SumWeights(bs) ==
    IF bs = <<>> THEN 0
    ELSE bs[1].config.weight + SumWeights(Tail(bs))

RECURSIVE Filter(_, _, _)
Filter(bs, fl, wsOnly) ==
    IF bs = <<>> THEN <<>>
    ELSE IF (~wsOnly \/ IsSome(bs[1].config.ws_url)) /\ fl[bs[1].healthy]
         THEN <<bs[1]>> \o Filter(Tail(bs), fl, wsOnly)
         ELSE Filter(Tail(bs), fl, wsOnly)

----------------------------------------------------------------------------
(* state.rs: AppState::select_backend and AppState::select_ws_backend *)

NoneSel == [kind |-> "None", label |-> "", url |-> <<>>]
PanicSel == [kind |-> "Panic", label |-> "", url |-> <<>>]
SomeSel(l, u) == [kind |-> "Some", label |-> l, url |-> u]

\* state.backends.iter().find(|b| b.config.label == *backend_label)
RECURSIVE find(_, _)
find(bs, backend_label) ==
    IF bs = <<>> THEN None
    ELSE IF bs[1].config.label = backend_label THEN Some(bs[1])
    ELSE find(Tail(bs), backend_label)

\* state.backends.iter().filter(|b| b.healthy.load(Relaxed)).collect()
healthy_backends_NoFilter(st, fl) == st.backends
healthy_backends(st, fl) == Filter(st.backends, fl, FALSE)

healthy_total_weight(st, fl) == SumWeights(healthy_backends(st, fl))

\* .filter(|b| b.config.ws_url.is_some() && b.healthy.load(Relaxed)).collect()
ws_backends(st, fl) == Filter(st.backends, fl, TRUE)

total_weight(st, fl) == SumWeights(ws_backends(st, fl))

\* for backend in &healthy_backends { if random_weight < weight { return } random_weight -= weight }
RECURSIVE WeightedWalk_Le(_, _)
WeightedWalk_Le(hs, random_weight) ==
    IF hs = <<>> THEN None
    ELSE IF random_weight <= hs[1].config.weight THEN Some(hs[1])
    ELSE WeightedWalk_Le(Tail(hs), random_weight - hs[1].config.weight)
RECURSIVE WeightedWalk(_, _)
WeightedWalk(hs, random_weight) ==
    IF hs = <<>> THEN None
    ELSE IF random_weight < hs[1].config.weight THEN Some(hs[1])
    ELSE WeightedWalk(Tail(hs), random_weight - hs[1].config.weight)

\* the method_routes branch: Some(backend) when the method is pinned to a
\* backend of the table whose flag is set
MethodRoute_Off(st, fl, rpc_method) == None
MethodRoute_IgnoreHealth(st, fl, rpc_method) ==
    IF IsSome(rpc_method) /\ Unwrap(rpc_method) \in DOMAIN st.method_routes
    THEN find(st.backends, st.method_routes[Unwrap(rpc_method)])
    ELSE None
MethodRoute(st, fl, rpc_method) ==
    IF IsSome(rpc_method) /\ Unwrap(rpc_method) \in DOMAIN st.method_routes
    THEN LET b == find(st.backends, st.method_routes[Unwrap(rpc_method)])
         IN  IF IsSome(b) /\ fl[Unwrap(b).healthy] THEN b ELSE None
    ELSE None

\* the weighted part of select_backend (lines 70-105); r is the value
\* rng.gen_range(0..healthy_total_weight) returned
WeightedSelect_NoZeroCheck(st, fl, r) ==
    LET hs == healthy_backends(st, fl)
        w  == WeightedWalk(hs, r)
    IN  IF hs = <<>> THEN NoneSel
        ELSE IF healthy_total_weight(st, fl) = 0 THEN PanicSel
        ELSE IF IsSome(w) THEN SomeSel(Unwrap(w).config.label, Unwrap(w).config.url)
        ELSE SomeSel(hs[1].config.label, hs[1].config.url)
WeightedSelect(st, fl, r) ==
    LET hs == healthy_backends(st, fl)
        w  == WeightedWalk(hs, r)
    IN  IF hs = <<>> THEN NoneSel
        ELSE IF healthy_total_weight(st, fl) = 0
        THEN SomeSel(hs[1].config.label, hs[1].config.url)
        ELSE IF IsSome(w) THEN SomeSel(Unwrap(w).config.label, Unwrap(w).config.url)
        ELSE SomeSel(hs[1].config.label, hs[1].config.url)

select_backend(st, fl, rpc_method, r) ==
    LET pinned == MethodRoute(st, fl, rpc_method)
    IN  IF IsSome(pinned)
        THEN SomeSel(Unwrap(pinned).config.label, Unwrap(pinned).config.url)
        ELSE WeightedSelect(st, fl, r)

\* rng.gen_range(0..total_weight) panics on the empty range 0..0
select_ws_backend(st, fl, r) ==
    LET ws == ws_backends(st, fl)
        w  == WeightedWalk(ws, r)
    IN  IF ws = <<>> THEN NoneSel
        ELSE IF total_weight(st, fl) = 0 THEN PanicSel
        ELSE IF IsSome(w)
        THEN SomeSel(Unwrap(w).config.label, Unwrap(Unwrap(w).config.ws_url))
        ELSE SomeSel(ws[1].config.label, Unwrap(ws[1].config.ws_url))

\* the values rng.gen_range(0..n) can return; no draw is made when n = 0
\* in select_backend, and one value stands for "no draw"
DrawRange(n) == IF n = 0 THEN {0} ELSE 0 .. (n - 1)

----------------------------------------------------------------------------
(* config.rs (Backend, HealthCheckConfig, Config, load_config) *)

Backend(l, w, ws) ==
    [label |-> l, url |-> Url(l),
     ws_url |-> IF ws THEN Some(WsUrl(l)) ELSE None, weight |-> w]

HealthCheckConfig(ft, st) ==
    [consecutive_failures_threshold |-> ft, consecutive_successes_threshold |-> st]

Config(redis, bs, routes, timeout, hc) ==
    [redis_url |-> redis, backends |-> bs, method_routes |-> routes,
     proxy_timeout_secs |-> timeout, health_check |-> hc]

NoRoutes == [m \in {} |-> ""]
Route(m, l) == [x \in {m} |-> l]

load_config_ok_NoRouteCheck(c) ==
    /\ c.redis_url # ""
    /\ Len(c.backends) >= 1
    /\ \A i, j \in 1 .. Len(c.backends) :
          i # j => c.backends[i].label # c.backends[j].label
    /\ \A i \in 1 .. Len(c.backends) :
          c.backends[i].label # "" /\ c.backends[i].weight # 0
    /\ c.proxy_timeout_secs > 0

load_config_ok_NoWeightCheck(c) ==
    /\ c.redis_url # ""
    /\ Len(c.backends) >= 1
    /\ \A i, j \in 1 .. Len(c.backends) :
          i # j => c.backends[i].label # c.backends[j].label
    /\ \A i \in 1 .. Len(c.backends) : c.backends[i].label # ""
    /\ c.proxy_timeout_secs > 0
    /\ \A m \in DOMAIN c.method_routes :
          \E i \in 1 .. Len(c.backends) : c.backends[i].label = c.method_routes[m]

\* the validation load_config applies before it returns Ok(config)
load_config_ok(c) ==
    /\ c.redis_url # ""
    /\ Len(c.backends) >= 1
    /\ \A i, j \in 1 .. Len(c.backends) :
          i # j => c.backends[i].label # c.backends[j].label
    /\ \A i \in 1 .. Len(c.backends) :
          c.backends[i].label # "" /\ c.backends[i].weight # 0
    /\ c.proxy_timeout_secs > 0
    /\ \A m \in DOMAIN c.method_routes :
          \E i \in 1 .. Len(c.backends) : c.backends[i].label = c.method_routes[m]

\* the contents the configuration file can have when it is loaded
ConfigFiles ==
    << Config("redis://r", <<Backend("u1", 1, TRUE), Backend("u2", 1, FALSE)>>,
              Route("getBlock", "u2"), 10, HealthCheckConfig(2, 2)),
       Config("redis://r", <<Backend("u1", 2, TRUE)>>,
              NoRoutes, 5, HealthCheckConfig(1, 2)),
       Config("redis://r", <<Backend("u2", 1, TRUE), Backend("u3", 1, TRUE)>>,
              Route("getBlock", "u3"), 10, HealthCheckConfig(2, 1)),
       Config("redis://r", <<Backend("u1", 0, TRUE)>>,
              NoRoutes, 10, HealthCheckConfig(2, 2)),
       Config("redis://r", <<Backend("u1", 1, TRUE)>>,
              Route("getBlock", "u3"), 10, HealthCheckConfig(2, 2)),
       Config("redis://r", <<Backend("u1", 1, TRUE), Backend("u1", 1, FALSE)>>,
              NoRoutes, 10, HealthCheckConfig(2, 2)),
       Config("redis://r", <<>>, NoRoutes, 10, HealthCheckConfig(2, 2)),
       Config("", <<Backend("u1", 1, TRUE)>>,
              NoRoutes, 10, HealthCheckConfig(2, 2)),
       Config("redis://r", <<Backend("", 1, TRUE)>>,
              NoRoutes, 10, HealthCheckConfig(2, 2)),
       Config("redis://r", <<Backend("u1", 1, TRUE)>>,
              NoRoutes, 0, HealthCheckConfig(2, 2)) >>

----------------------------------------------------------------------------
(* health.rs: BackendHealthStatus and HealthState *)

BackendHealthStatus_default_Pessimistic ==
    [healthy |-> FALSE, last_check_time |-> None, consecutive_failures |-> 0,
     consecutive_successes |-> 0, last_error |-> None]
BackendHealthStatus_default ==
    [healthy |-> TRUE, last_check_time |-> None, consecutive_failures |-> 0,
     consecutive_successes |-> 0, last_error |-> None]

\* HealthState::new(backend_labels)
HealthState_new(backend_labels) ==
    [l \in backend_labels |-> BackendHealthStatus_default]

\* HealthState::get_status
get_status(hs, label) ==
    IF label \in DOMAIN hs THEN Some(hs[label]) ELSE None

\* HealthState::update_status: only a label already in the map is written
update_status_Everywhere(hs, label, status) == [l \in DOMAIN hs |-> status]
update_status(hs, label, status) ==
    IF label \in DOMAIN hs THEN [hs EXCEPT ![label] = status] ELSE hs

unwrap_or_default(o) == IF IsSome(o) THEN Unwrap(o) ELSE BackendHealthStatus_default

----------------------------------------------------------------------------
(* health.rs: perform_health_check and health_check_loop *)

Ok == [ok |-> TRUE, error |-> ""]
Err(e) == [ok |-> FALSE, error |-> e]

\* what perform_health_check can return: Ok(()), or Err for a non-2xx
\* status, for a failed request and for the timeout
perform_health_check ==
    {Ok, Err("Health check returned status"), Err("Health check request failed"),
     Err("Health check timed out")}

\* u32 counters; the model stops counting at MaxCount, which no threshold
\* of ConfigFiles exceeds
Inc(n) == IF n < MaxCount THEN n + 1 ELSE n

\* the match on check_result and the last_check_time assignment (lines 137-177)
NextStatus_NoThreshold(current_status, check_result, health_config) ==
    IF check_result.ok
    THEN [current_status EXCEPT
            !.consecutive_successes = Inc(@),
            !.consecutive_failures = 0,
            !.last_error = None,
            !.healthy = TRUE,
            !.last_check_time = Some("now")]
    ELSE [current_status EXCEPT
            !.consecutive_failures = Inc(@),
            !.consecutive_successes = 0,
            !.last_error = Some(check_result.error),
            !.healthy = FALSE,
            !.last_check_time = Some("now")]
NextStatus_KeepSuccesses(current_status, check_result, health_config) ==
    IF check_result.ok
    THEN [current_status EXCEPT
            !.consecutive_successes = Inc(@),
            !.consecutive_failures = 0,
            !.last_error = None,
            !.healthy = IF Inc(current_status.consecutive_successes)
                            >= health_config.consecutive_successes_threshold
                        THEN TRUE ELSE @,
            !.last_check_time = Some("now")]
    ELSE [current_status EXCEPT
            !.consecutive_failures = Inc(@),
            !.last_error = Some(check_result.error),
            !.healthy = IF Inc(current_status.consecutive_failures)
                            >= health_config.consecutive_failures_threshold
                        THEN FALSE ELSE @,
            !.last_check_time = Some("now")]
NextStatus(current_status, check_result, health_config) ==
    IF check_result.ok
    THEN [current_status EXCEPT
            !.consecutive_successes = Inc(@),
            !.consecutive_failures = 0,
            !.last_error = None,
            !.healthy = IF Inc(current_status.consecutive_successes)
                            >= health_config.consecutive_successes_threshold
                        THEN TRUE ELSE @,
            !.last_check_time = Some("now")]
    ELSE [current_status EXCEPT
            !.consecutive_failures = Inc(@),
            !.consecutive_successes = 0,
            !.last_error = Some(check_result.error),
            !.healthy = IF Inc(current_status.consecutive_failures)
                            >= health_config.consecutive_failures_threshold
                        THEN FALSE ELSE @,
            !.last_check_time = Some("now")]

MonitorBackend == monitor.backends[monitor.i]

\* lines 128-199: probe monitor.backends[i], read its status record, update
\* the counters and write the record back under the label
Probe ==
    /\ monitor.pc = "probe"
    /\ \E check_result \in perform_health_check :
         LET label == MonitorBackend.config.label
             current_status ==
                 NextStatus(unwrap_or_default(get_status(statuses, label)),
                            check_result, monitor.health_config)
         IN  /\ statuses' = update_status(statuses, label, current_status)
             /\ monitor' = [monitor EXCEPT !.pc = "store",
                                           !.current_status = current_status]
    /\ UNCHANGED <<state, flags, reloads, reload_log, lastSel, reqVars, ksVars>>

Publish_EndsSweepOnFailure ==
    /\ monitor.pc = "store"
    /\ flags' = [flags EXCEPT ![MonitorBackend.healthy] = monitor.current_status.healthy]
    /\ monitor' = [monitor EXCEPT
                     !.pc = IF monitor.i = Len(monitor.backends)
                               \/ IsSome(monitor.current_status.last_error)
                            THEN "sleep" ELSE "probe",
                     !.i = IF monitor.i = Len(monitor.backends)
                              \/ IsSome(monitor.current_status.last_error)
                           THEN @ ELSE @ + 1,
                     !.current_status = BackendHealthStatus_default]
    /\ UNCHANGED <<state, statuses, reloads, reload_log, lastSel, reqVars, ksVars>>

\* lines 201-205: backend.healthy.store(current_status.healthy), the end of
\* the iteration (its local current_status is dropped), then the next
\* backend of the vector, or the sleep after the last one
Publish ==
    /\ monitor.pc = "store"
    /\ flags' = [flags EXCEPT ![MonitorBackend.healthy] = monitor.current_status.healthy]
    /\ monitor' = [monitor EXCEPT
                     !.pc = IF monitor.i = Len(monitor.backends) THEN "sleep" ELSE "probe",
                     !.i = IF monitor.i = Len(monitor.backends) THEN @ ELSE @ + 1,
                     !.current_status = BackendHealthStatus_default]
    /\ UNCHANGED <<state, statuses, reloads, reload_log, lastSel, reqVars, ksVars>>

\* line 207: sleep(check_interval), then the next sweep
Sleep ==
    /\ monitor.pc = "sleep"
    /\ monitor' = [monitor EXCEPT !.pc = "probe", !.i = 1]
    /\ UNCHANGED <<state, flags, statuses, reloads, reload_log, lastSel, reqVars, ksVars>>

----------------------------------------------------------------------------
(* main.rs: boot and the SIGHUP reload handler *)

\* RouterState { backends, method_routes, health_state, proxy_timeout_secs,
\* health_check_config }; health_state is the one shared map `statuses`
RouterState(runtime_backends, c) ==
    [backends |-> runtime_backends, method_routes |-> c.method_routes,
     proxy_timeout_secs |-> c.proxy_timeout_secs,
     health_check_config |-> c.health_check]

\* the RuntimeBackend vector built from a config, its Arc<AtomicBool> cells
\* allocated after the `base` cells that exist already
RuntimeBackends(c, base) ==
    [i \in 1 .. Len(c.backends) |-> [config |-> c.backends[i], healthy |-> base + i]]

BackendLabels(bs) == {bs[i].label : i \in 1 .. Len(bs)}

\* lines 152-156: the initial value of a new backend's flag
is_healthy_AlwaysTrue(hs, label) == TRUE
is_healthy(hs, label) ==
    IF IsSome(get_status(hs, label)) THEN Unwrap(get_status(hs, label)).healthy ELSE TRUE

NoCall == [op |-> "none", method |-> None, r |-> 0, result |-> NoneSel]

\* no request is inside handlers::proxy, and the credential gate is not in use
NoRequest == [pc |-> "off"]
\* no WebSocket session, no request in the method extractor, no test store
SideOff == session = "off" /\ ext = "off" /\ mock = "off"
KsOff == redis_db = "off" /\ cache = "off" /\ calls = <<>> /\ audit = "off"

\* main, lines 51-125: the state once the servers are up. health_check_loop
\* (health.rs 118-123) takes its backends vector, the HealthState and the
\* HealthCheckConfig by value when the task is spawned: they are the boot
\* table's runtime backends (clones share the Arc<AtomicBool> cells), the
\* one HealthState and the boot configuration's health_check section.
Boot(c) ==
    /\ load_config_ok(c)
    /\ state = RouterState(RuntimeBackends(c, 0), c)
    /\ flags = [i \in 1 .. Len(c.backends) |-> TRUE]
    /\ statuses = HealthState_new(BackendLabels(c.backends))
    /\ monitor = [backends |-> RuntimeBackends(c, 0), health_config |-> c.health_check,
                  i |-> 1, pc |-> "probe",
                  current_status |-> BackendHealthStatus_default]
    /\ reloads = 0
    /\ reload_log = "none"
    /\ lastSel = NoCall

Init ==
    /\ \E k \in 1 .. Len(ConfigFiles) : Boot(ConfigFiles[k])
    /\ req = NoRequest
    /\ SideOff
    /\ KsOff

Reload_ErrResetsStatuses ==
    \E k \in 1 .. Len(ConfigFiles) :
      LET new_config == ConfigFiles[k]
      IN  IF load_config_ok(new_config)
          THEN /\ reloads < MaxReloads
               /\ flags' = flags \o [i \in 1 .. Len(new_config.backends) |->
                                       is_healthy(statuses, new_config.backends[i].label)]
               /\ state' = RouterState(RuntimeBackends(new_config, Len(flags)), new_config)
               /\ reloads' = reloads + 1
               /\ reload_log' = "Router state atomically swapped"
               /\ UNCHANGED <<statuses, monitor, lastSel, reqVars, ksVars>>
          ELSE /\ reload_log' = "Failed to reload configuration"
               /\ statuses' = [l \in DOMAIN statuses |-> BackendHealthStatus_default]
               /\ UNCHANGED <<state, flags, monitor, reloads, lastSel, reqVars, ksVars>>

\* lines 137-189: one SIGHUP, with new_config the file's content
Reload ==
    \E k \in 1 .. Len(ConfigFiles) :
      LET new_config == ConfigFiles[k]
      IN  IF load_config_ok(new_config)
          THEN /\ reloads < MaxReloads
               /\ flags' = flags \o [i \in 1 .. Len(new_config.backends) |->
                                       is_healthy(statuses, new_config.backends[i].label)]
               /\ state' = RouterState(RuntimeBackends(new_config, Len(flags)), new_config)
               /\ reloads' = reloads + 1
               /\ reload_log' = "Router state atomically swapped"
               /\ UNCHANGED <<statuses, monitor, lastSel, reqVars, ksVars>>
          ELSE /\ reload_log' = "Failed to reload configuration"
               /\ UNCHANGED <<state, flags, statuses, monitor, reloads, lastSel, reqVars, ksVars>>

Next == Probe \/ Publish \/ Sleep \/ Reload

Spec == Init /\ [][Next]_vars

\* the monitor is a spawned tokio task: it is scheduled again and again
FairSpec == Spec /\ WF_vars(Probe) /\ WF_vars(Publish) /\ WF_vars(Sleep)

----------------------------------------------------------------------------
(* The selectors as functions of (table, flags, method, draw): every table *)
(* an AppState can be built with, as tests/routing_test.rs builds them     *)
(* (weight 0 and tables without ws_url included).                          *)

LabelSeq == <<"u1", "u2", "u3">>

RECURSIVE LabelsOf(_)
LabelsOf(S) ==
    IF S = {} THEN <<>>
    ELSE LET m == CHOOSE x \in S : \A y \in S : x <= y
         IN  <<LabelSeq[m]>> \o LabelsOf(S \ {m})

MethodArgs == {None} \cup {Some(m) : m \in Methods}

\* method_routes of the tables: "getBlock" pinned to some label, or nothing pinned
RouteMaps == {NoRoutes} \cup {Route("getBlock", l) : l \in Labels}

InitSel ==
    \E S \in SUBSET (1 .. Len(LabelSeq)) :
      /\ \E w \in [1 .. Cardinality(S) -> 0 .. MaxWeight],
            ws \in [1 .. Cardinality(S) -> BOOLEAN],
            routes \in RouteMaps :
           LET c == Config("redis://r",
                           [i \in 1 .. Cardinality(S) |->
                              Backend(LabelsOf(S)[i], w[i], ws[i])],
                           routes, 10, HealthCheckConfig(2, 2))
           IN  /\ state = RouterState(RuntimeBackends(c, 0), c)
               /\ flags = [i \in 1 .. Cardinality(S) |-> TRUE]
               /\ statuses = HealthState_new(BackendLabels(c.backends))
               /\ monitor = [backends |-> <<>>, health_config |-> c.health_check,
                             i |-> 1, pc |-> "off",
                             current_status |-> BackendHealthStatus_default]
               /\ reloads = 0
               /\ reload_log = "none"
               /\ lastSel = NoCall
               /\ req = NoRequest
               /\ SideOff
               /\ KsOff

\* backend.healthy.store(v, Ordering::Relaxed) on a backend of the table
StoreFlag ==
    \E i \in 1 .. Len(state.backends), v \in BOOLEAN :
      /\ flags' = [flags EXCEPT ![state.backends[i].healthy] = v]
      /\ lastSel' = NoCall
      /\ UNCHANGED <<state, statuses, monitor, reloads, reload_log, reqVars, ksVars>>

\* one call of select_backend(rpc_method), r being the draw of its rng
SelectHttp ==
    \E rpc_method \in MethodArgs, r \in DrawRange(healthy_total_weight(state, flags)) :
      /\ lastSel' = [op |-> "http", method |-> rpc_method, r |-> r,
                     result |-> select_backend(state, flags, rpc_method, r)]
      /\ UNCHANGED <<state, flags, statuses, monitor, reloads, reload_log, reqVars, ksVars>>

\* one call of select_ws_backend(), r being the draw of its rng
SelectWs ==
    \E r \in DrawRange(total_weight(state, flags)) :
      /\ lastSel' = [op |-> "ws", method |-> None, r |-> r,
                     result |-> select_ws_backend(state, flags, r)]
      /\ UNCHANGED <<state, flags, statuses, monitor, reloads, reload_log, reqVars, ksVars>>

NextSel == StoreFlag \/ SelectHttp \/ SelectWs

SelSpec == InitSel /\ [][NextSel]_vars

----------------------------------------------------------------------------
(* Properties of the selectors, checked under SelSpec *)

Idx == 1 .. Len(state.backends)
IsHealthy(i) == flags[state.backends[i].healthy]
HealthyIdx == {i \in Idx : IsHealthy(i)}
WeightOf(i) == state.backends[i].config.weight

RECURSIVE SumOver(_)
SumOver(S) ==
    IF S = {} THEN 0
    ELSE LET i == CHOOSE x \in S : TRUE IN WeightOf(i) + SumOver(S \ {i})

\* cumulative weight of the upstreams of S up to and including position i
Cumulative(S, i) == SumOver({j \in S : j <= i})

\* the upstream the cumulative walk over S designates for draw r
Designated(S, r) ==
    IF S = {} THEN 0
    ELSE IF SumOver(S) = 0 THEN CHOOSE i \in S : \A j \in S : i <= j
    ELSE CHOOSE i \in S : /\ Cumulative(S, i) > r
                          /\ \A j \in S : j < i => Cumulative(S, j) <= r

HttpResult(i) ==
    IF i = 0 THEN NoneSel
    ELSE SomeSel(state.backends[i].config.label, state.backends[i].config.url)

\* the position of the upstream the call's method is pinned to, 0 if the
\* method is absent, unrouted, or routed to a label the table does not have
PinnedIdx ==
    IF IsSome(lastSel.method) /\ Unwrap(lastSel.method) \in DOMAIN state.method_routes
       /\ \E i \in Idx : state.backends[i].config.label
                            = state.method_routes[Unwrap(lastSel.method)]
    THEN CHOOSE i \in Idx : state.backends[i].config.label
                               = state.method_routes[Unwrap(lastSel.method)]
    ELSE 0

\* C1: select_http never returns an upstream whose atomic healthy flag is
\* false at the time of the call, whatever the table, the method argument
\* and the draw; StoreFlag discards the recorded call, so the flags of the
\* state are the flags the recorded call read.
C1_NeverReturnsUnhealthy ==
    (lastSel.op = "http" /\ lastSel.result.kind = "Some") =>
        \E i \in HealthyIdx : state.backends[i].config.label = lastSel.result.label

\* a call whose method is pinned to an upstream whose flag was set to false
\* returned another upstream
C1_Witness ==
    /\ lastSel.op = "http"
    /\ lastSel.result.kind = "Some"
    /\ PinnedIdx # 0
    /\ ~IsHealthy(PinnedIdx)

\* C4: a method pinned to label L whose upstream is healthy gets (L, L.url)
\* for every draw, whatever L's weight and the health of the others.
C4_PinnedHealthyReturned ==
    (lastSel.op = "http" /\ PinnedIdx # 0 /\ IsHealthy(PinnedIdx)) =>
        lastSel.result = HttpResult(PinnedIdx)

\* the pinned upstream has weight 0, another healthy upstream carries all
\* the weight, and the draw is not the first one
C4_Witness ==
    /\ lastSel.op = "http"
    /\ PinnedIdx # 0
    /\ IsHealthy(PinnedIdx)
    /\ WeightOf(PinnedIdx) = 0
    /\ lastSel.r > 0
    /\ \E i \in HealthyIdx : i # PinnedIdx
    /\ lastSel.result.label = state.method_routes[Unwrap(lastSel.method)]

\* C5: a method pinned to an unhealthy upstream gets what a call without
\* method gets for the same flags and the same draw: none when no upstream
\* is healthy, otherwise the healthy upstream the weighted walk designates.
C5_PinnedUnhealthyFallsBack ==
    (lastSel.op = "http" /\ PinnedIdx # 0 /\ ~IsHealthy(PinnedIdx)) =>
        /\ lastSel.result = select_backend(state, flags, None, lastSel.r)
        /\ lastSel.result = HttpResult(Designated(HealthyIdx, lastSel.r))
        /\ (HealthyIdx = {}) <=> (lastSel.result.kind = "None")

\* the pinned upstream is unhealthy and the draw chose the second of the two
\* healthy ones
C5_Witness ==
    /\ lastSel.op = "http"
    /\ PinnedIdx # 0
    /\ ~IsHealthy(PinnedIdx)
    /\ Cardinality(HealthyIdx) >= 2
    /\ lastSel.r > 0
    /\ \E i \in HealthyIdx : /\ lastSel.result = HttpResult(i)
                              /\ \E j \in HealthyIdx : j < i

\* C6: when the weighted part decides (no method, or a method that is not
\* pinned to a healthy upstream), the result is the first healthy upstream
\* in configuration order whose cumulative weight exceeds r, or the first
\* healthy one when the weights sum to 0; healthy upstream i is returned for
\* exactly weight_i of the W draws.
C6_WeightedWalk ==
    /\ (lastSel.op = "http" /\ ~(PinnedIdx # 0 /\ IsHealthy(PinnedIdx))) =>
          lastSel.result = HttpResult(Designated(HealthyIdx, lastSel.r))
    /\ SumOver(HealthyIdx) > 0 =>
          \A i \in HealthyIdx :
             Cardinality({r \in 0 .. (SumOver(HealthyIdx) - 1) :
                            select_backend(state, flags, None, r) = HttpResult(i)})
               = WeightOf(i)

\* a draw that passes over the first healthy upstream, with a weight-0
\* upstream among the healthy ones
C6_Witness ==
    /\ lastSel.op = "http"
    /\ lastSel.method = None
    /\ lastSel.r > 0
    /\ Cardinality(HealthyIdx) >= 2
    /\ \E i \in HealthyIdx : WeightOf(i) = 0
    /\ lastSel.result.kind = "Some"

\* the healthy upstreams all have weight 0 and the first one is returned
C6_WitnessZero ==
    /\ lastSel.op = "http"
    /\ Cardinality(HealthyIdx) >= 2
    /\ SumOver(HealthyIdx) = 0
    /\ lastSel.result.kind = "Some"

\* C7: select_http returns none if and only if no upstream of the table is
\* healthy; with a healthy upstream it returns some upstream for every
\* method and every draw.
C7_NoneIffNoHealthy ==
    lastSel.op = "http" =>
        /\ (lastSel.result.kind = "None") <=> (HealthyIdx = {})
        /\ (HealthyIdx # {}) => (lastSel.result.kind = "Some")

\* every upstream of a non-empty table was flipped to unhealthy and the
\* call returned none
C7_Witness ==
    /\ lastSel.op = "http"
    /\ Len(state.backends) >= 2
    /\ HealthyIdx = {}
    /\ lastSel.result.kind = "None"

\* the table reduced to the upstreams that have ws_url set
WsTable ==
    [state EXCEPT !.backends =
        LET RECURSIVE Keep(_)
            Keep(bs) == IF bs = <<>> THEN <<>>
                        ELSE IF IsSome(bs[1].config.ws_url)
                             THEN <<bs[1]>> \o Keep(Tail(bs))
                             ELSE Keep(Tail(bs))
        IN  Keep(state.backends)]

\* a select_http result with the upstream's ws_url in place of its url
WithWsUrl(res) ==
    IF res.kind = "Some" THEN SomeSel(res.label, WsUrl(res.label)) ELSE res

\* C8: select_ws returns what select_http without method returns on the
\* sub-sequence of upstreams that have ws_url set (with ws_url for url),
\* the first such healthy upstream when their weights sum to 0 included.
C8_WsLikeHttpOnWsTable ==
    lastSel.op = "ws" =>
        lastSel.result = WithWsUrl(select_backend(WsTable, flags, None, lastSel.r))

----------------------------------------------------------------------------
(* Properties of the health monitor and of the reload, checked under Spec *)

FT == monitor.health_config.consecutive_failures_threshold
ST == monitor.health_config.consecutive_successes_threshold

\* the status a reader gets for a label: get_status(label).unwrap_or_default()
StatusOf(hs, l) == unwrap_or_default(get_status(hs, l))

\* the step is the probe of the upstream labelled l
ProbeStepOf(l) ==
    /\ monitor.pc = "probe"
    /\ monitor'.pc = "store"
    /\ MonitorBackend.config.label = l

\* the step is the store into the atomic cell k
PublishStepOf(k) ==
    /\ monitor.pc = "store"
    /\ monitor'.pc # "store"
    /\ MonitorBackend.healthy = k

\* the monitor has written the record of its i-th upstream and not yet its flag
Publishing(i) == monitor.pc = "store" /\ monitor.i = i

C2_Step ==
    /\ \A l \in DOMAIN statuses :
         /\ (statuses[l].healthy /\ ~statuses'[l].healthy) =>
               /\ ProbeStepOf(l)
               /\ IsSome(statuses'[l].last_error)
               /\ statuses'[l].consecutive_failures >= FT
         /\ (~statuses[l].healthy /\ statuses'[l].healthy) =>
               /\ ProbeStepOf(l)
               /\ statuses'[l].last_error = None
               /\ statuses'[l].consecutive_successes >= ST
         /\ (ProbeStepOf(l) /\ FT >= 2 /\ IsSome(statuses'[l].last_error)
               /\ statuses[l].consecutive_failures = 0) =>
               statuses'[l].healthy = statuses[l].healthy
         /\ (ProbeStepOf(l) /\ ST >= 2 /\ statuses'[l].last_error = None
               /\ statuses[l].consecutive_successes = 0) =>
               statuses'[l].healthy = statuses[l].healthy
    /\ \A k \in DOMAIN flags :
         /\ (flags[k] /\ ~flags'[k]) =>
               /\ PublishStepOf(k)
               /\ IsSome(StatusOf(statuses, MonitorBackend.config.label).last_error)
               /\ StatusOf(statuses, MonitorBackend.config.label).consecutive_failures >= FT
         /\ (~flags[k] /\ flags'[k]) =>
               /\ PublishStepOf(k)
               /\ StatusOf(statuses, MonitorBackend.config.label).last_error = None
               /\ StatusOf(statuses, MonitorBackend.config.label).consecutive_successes >= ST

\* C2: hysteresis. The healthy value of a status record and the value of an
\* atomic flag change from true to false only at a failed probe that brings
\* consecutive_failures to at least FT, and from false to true only at a
\* successful probe that brings consecutive_successes to at least ST; with
\* a threshold of 2 or more the first failure after a success (the first
\* success after a failure) changes nothing.
C2_Hysteresis == [][C2_Step]_vars

\* thresholds of 2: an unhealthy upstream had one success, and its record
\* and its flag are still unhealthy
C2_Witness ==
    /\ FT >= 2
    /\ ST >= 2
    /\ monitor.pc = "probe"
    /\ \E i \in DOMAIN monitor.backends :
         LET rec == StatusOf(statuses, monitor.backends[i].config.label)
         IN  /\ rec.consecutive_successes = 1
             /\ ~rec.healthy
             /\ ~flags[monitor.backends[i].healthy]

\* the record and the flag of every upstream the loop probes agree with the
\* counters: FT failures in a row mean unhealthy, ST successes mean healthy
C3_Thresholds ==
    \A i \in DOMAIN monitor.backends :
      LET rec == StatusOf(statuses, monitor.backends[i].config.label)
          flag == flags[monitor.backends[i].healthy]
      IN  /\ rec.consecutive_failures >= FT =>
                ~rec.healthy /\ (~Publishing(i) => ~flag)
          /\ rec.consecutive_successes >= ST =>
                rec.healthy /\ (~Publishing(i) => flag)

\* what one probe does to the record of the probed upstream
C3_Step ==
    \A l \in DOMAIN statuses :
      ProbeStepOf(l) =>
        LET old == statuses[l]
            new == statuses'[l]
        IN  \/ /\ IsSome(new.last_error)
               /\ old.consecutive_failures < MaxCount =>
                     new.consecutive_failures = old.consecutive_failures + 1
               /\ new.consecutive_failures >= 1
               /\ new.consecutive_successes = 0
            \/ /\ new.last_error = None
               /\ old.consecutive_successes < MaxCount =>
                     new.consecutive_successes = old.consecutive_successes + 1
               /\ new.consecutive_successes >= 1
               /\ new.consecutive_failures = 0

LabelsIn(st) == {st.backends[i].config.label : i \in 1 .. Len(st.backends)}

C10_Step ==
    (reloads' = reloads + 1) =>
        /\ statuses' = statuses
        /\ \A j \in 1 .. Len(state'.backends) :
             LET l == state'.backends[j].config.label
             IN  l \in LabelsIn(state) =>
                   flags'[state'.backends[j].healthy] = StatusOf(statuses', l).healthy

\* C10: a successful reload leaves the status records unchanged, and the
\* flag of every new upstream whose label was in the replaced table equals
\* the healthy value of the status read under that label.
C10_ReloadPreservesHistory == [][C10_Step]_vars

\* a table installed by the first reload holds an upstream of the boot
\* table whose record says unhealthy after 2 or more failures, flag false
C10_Witness ==
    /\ reloads = 1
    /\ \E j \in 1 .. Len(state.backends) :
         LET l == state.backends[j].config.label
         IN  /\ l \in DOMAIN statuses
             /\ ~statuses[l].healthy
             /\ statuses[l].consecutive_failures >= 2
             /\ ~flags[state.backends[j].healthy]

----------------------------------------------------------------------------
(* The monitor and the table installed by a reload, checked under FairSpec *)

InTable(l) == l \in LabelsIn(state)

\* some method and some draw make select_backend return the upstream l
Selectable(l) ==
    \E rpc_method \in MethodArgs, r \in DrawRange(healthy_total_weight(state, flags)) :
       select_backend(state, flags, rpc_method, r).label = l

\* the last probe of l failed / succeeded
LastProbeFailed(l) == l \in DOMAIN statuses /\ IsSome(statuses[l].last_error)
LastProbeOk(l) ==
    /\ l \in DOMAIN statuses
    /\ statuses[l].last_error = None
    /\ statuses[l].consecutive_successes >= 1

\* C9: after a reload, an upstream of the current table whose probes fail
\* from some point on is eventually never selected, and one whose probes
\* succeed from some point on is eventually selectable.
C9_MonitorDrivesCurrentTable ==
    \A l \in Labels :
      /\ <>[](reloads >= 1 /\ InTable(l) /\ LastProbeFailed(l)) => <>[](~Selectable(l))
      /\ <>[](reloads >= 1 /\ InTable(l) /\ LastProbeOk(l)) => <>[]Selectable(l)

----------------------------------------------------------------------------
(* Reloads and the labels they bring back, checked under Spec *)

C11_Step ==
    (reloads' = reloads + 1) =>
        \A j \in 1 .. Len(state'.backends) :
          LET l == state'.backends[j].config.label
          IN  l \notin LabelsIn(state) =>
                /\ flags'[state'.backends[j].healthy]
                /\ StatusOf(statuses', l) = BackendHealthStatus_default

\* C11: on a successful reload, every upstream of the new table whose label
\* is not a label of the table being replaced has its flag true and reads a
\* default status record (healthy, counters zero).
C11_NewLabelStartsFresh == [][C11_Step]_vars

ReloadFailed == "Failed to reload configuration"

\* the step is a reload whose configuration was rejected
C12_Step ==
    (reload_log' = ReloadFailed /\ reload_log # ReloadFailed) =>
        /\ state' = state
        /\ flags' = flags
        /\ statuses' = statuses

\* after a rejected reload the handler can take the next SIGHUP and install
\* a table
C12_Ready ==
    (reload_log = ReloadFailed /\ reloads < MaxReloads) =>
        ENABLED (Reload /\ reloads' = reloads + 1)

\* C12: a reload whose configuration is rejected changes neither the
\* routing table, nor any flag, nor any status record, and the handler
\* stays able to process the next SIGHUP.
C12_FailedReloadChangesNothing == [](C12_Ready) /\ [][C12_Step]_vars

\* a rejected reload happened after a table was installed, with an upstream
\* of the table unhealthy and a record that is not the default
C12_Witness ==
    /\ reload_log = ReloadFailed
    /\ reloads >= 1
    /\ \E i \in 1 .. Len(flags) : ~flags[i]
    /\ \E l \in DOMAIN statuses : statuses[l] # BackendHealthStatus_default

----------------------------------------------------------------------------
(* handlers::proxy: one request against the table, beside the reloads *)

\* the inbound query string: raw parameters name=value joined by "&". The
\* client's key is "K"; "api%2Dkey" is the name api-key with its hyphen
\* percent-encoded.
MaxQuery == 2

QueryParams ==
    { [name |-> "api-key", value |-> "K"],
      [name |-> "api%2Dkey", value |-> "K"],
      [name |-> "commitment", value |-> "final"] }

RECURSIVE SeqsUpTo(_, _)
SeqsUpTo(S, n) ==
    IF n = 0 THEN {<<>>}
    ELSE SeqsUpTo(S, n - 1) \cup
         {Append(q, p) : q \in {x \in SeqsUpTo(S, n - 1) : Len(x) = n - 1}, p \in S}

Queries == SeqsUpTo(QueryParams, MaxQuery)

\* the backend URLs of the tables are well-formed URIs, so that the outbound
\* URI parses (lines 211-221 answer 500 "Invalid backend configuration"
\* when it does not)
\* the percent-decoding the Query extractor applies to a parameter name
decode(name) == IF name = "api%2Dkey" THEN "api-key" ELSE name

\* line 133, Query<Params> with Params { #[serde(rename = "api-key")]
\* api_key: Option<String> }: the parameters are decoded and the field is
\* taken from the one named api-key; a repeated field fails to deserialize
\* and the extractor rejects the request
Query(query) ==
    LET named == {i \in 1 .. Len(query) : decode(query[i].name) = "api-key"}
    IN  IF Cardinality(named) > 1 THEN [rejected |-> TRUE, api_key |-> None]
        ELSE IF named = {} THEN [rejected |-> FALSE, api_key |-> None]
        ELSE [rejected |-> FALSE,
              api_key |-> Some(query[CHOOSE i \in named : TRUE].value)]

\* lines 182-190: q.split('&').filter(|p| !p.starts_with("api-key=")).join("&")
cleaned_query(query) == SelectSeq(query, LAMBDA p : p.name # "api-key")

\* what validate_key can return to the handler (keystore.rs 131-144)
GateResults == {"KeyInfo", "none", "rate_limited", "error"}

\* line 145: Ok(Some(_info)) lets the request through
accepted_Anything(result) == TRUE
accepted(result) == result = "KeyInfo"

Response(status, body) ==
    [status |-> status, headers |-> "proxy", body |-> body,
     SelectedBackend |-> None, upstream |-> FALSE]

\* lines 148-162: the answers to the other results of validate_key
gate_response_All401(result) == Response(401, "Unauthorized")
gate_response(result) ==
    IF result = "none" THEN Response(401, "Unauthorized")
    ELSE IF result = "rate_limited" THEN Response(429, "Rate limit exceeded")
    ELSE Response(500, "Internal Server Error")

\* what the selected upstream can answer
UpstreamResponses ==
    { [status |-> 200, headers |-> "upstream", body |-> "result"],
      [status |-> 401, headers |-> "upstream", body |-> "denied"] }

\* the result of timeout(Duration::from_secs(proxy_timeout), client.request(req))
ForwardResults ==
    {[kind |-> "response", resp |-> r] : r \in UpstreamResponses}
      \cup {[kind |-> "transport error"], [kind |-> "elapsed"]}

\* lines 244-262: the response made of the forward's result
forward_response_Swapped(result, backend_label) ==
    IF result.kind = "response"
    THEN [status |-> result.resp.status, headers |-> result.resp.headers,
          body |-> result.resp.body,
          SelectedBackend |-> Some(backend_label), upstream |-> TRUE]
    ELSE IF result.kind = "transport error"
         THEN Response(504, "Upstream request timed out")
         ELSE Response(502, "Proxy error")
forward_response(result, backend_label) ==
    IF result.kind = "response"
    THEN [status |-> result.resp.status, headers |-> result.resp.headers,
          body |-> result.resp.body,
          SelectedBackend |-> Some(backend_label), upstream |-> TRUE]
    ELSE IF result.kind = "transport error"
         THEN Response(502, "Proxy error")
         ELSE Response(504, "Upstream request timed out")

\* a request is followed through this many selections
MaxAttempts == 2

\* the handler is between two requests. Of a request: query and rpc_method
\* are what the client sent, api_key what the extractor found, gate what
\* validate_key returned, uri the outbound URI, response what the client got.
\* The counters tell how often the request called validate_key, selected an
\* upstream and sent a forward; sent is the result of the forward.
IdleRequest ==
    [pc |-> "idle", query |-> <<>>, rpc_method |-> None, api_key |-> None,
     entered |-> 0, gate |-> None, backend_label |-> None, backend_url |-> None,
     uri |-> None, snapshot |-> None, selected_in |-> None,
     proxy_timeout |-> None, timeout_in |-> None, sent |-> None,
     validations |-> 0, selections |-> 0, forwards |-> 0, response |-> None]

Respond(r, response) == [r EXCEPT !.pc = "done", !.response = Some(response)]

\* lines 254-262: a forward that failed or timed out ends the request
after_forward_Retry(r, result) ==
    IF result.kind = "response"
    THEN Respond(r, forward_response(result, Unwrap(r.backend_label)))
    ELSE [r EXCEPT !.pc = "select"]
after_forward(r, result) ==
    Respond(r, forward_response(result, Unwrap(r.backend_label)))

InitReq ==
    /\ \E k \in 1 .. Len(ConfigFiles) : Boot(ConfigFiles[k])
    /\ req = IdleRequest
    /\ SideOff
    /\ KsOff

\* lines 131-142: a request arrives; rpc_method is the extension set by
\* extract_rpc_method. The extractor rejects a query it cannot deserialize
\* with 400, and a request without api-key is answered 401. `entered` is
\* the number of tables installed by reloads when the request arrived.
proxy_Enter ==
    /\ req.pc \in {"idle", "done"}
    /\ \E query \in Queries, rpc_method \in MethodArgs :
         LET r == [IdleRequest EXCEPT !.query = query, !.rpc_method = rpc_method,
                                      !.entered = reloads]
         IN  req' = IF Query(query).rejected
                    THEN Respond(r, Response(400, "Failed to deserialize query string"))
                    ELSE IF Query(query).api_key = None
                         THEN Respond(r, Response(401, "Unauthorized"))
                         ELSE [r EXCEPT !.pc = "validate", !.api_key = Query(query).api_key]
    /\ UNCHANGED <<state, flags, statuses, monitor, reloads, reload_log, lastSel, sideVars, ksVars>>

\* lines 144-162: state.keystore.validate_key(&api_key).await and the match
\* on what it returned
proxy_Validate ==
    /\ req.pc = "validate"
    /\ \E result \in GateResults :
         LET r == [req EXCEPT !.gate = Some(result), !.validations = @ + 1]
         IN  req' = IF accepted(result) THEN [r EXCEPT !.pc = "select"]
                    ELSE Respond(r, gate_response(result))
    /\ UNCHANGED <<state, flags, statuses, monitor, reloads, reload_log, lastSel, sideVars, ksVars>>

\* lines 167-235: state.select_backend(rpc_method), which loads the table
\* once (state.rs 46) and selects in it; None is answered with 503.
\* Otherwise the outbound URI is built of the backend URL and the cleaned
\* query.
proxy_Select ==
    /\ req.pc = "select"
    /\ req.selections < MaxAttempts
    /\ \E r \in DrawRange(healthy_total_weight(state, flags)) :
         LET selection == select_backend(state, flags, req.rpc_method, r)
             counted == [req EXCEPT !.selections = @ + 1]
         IN  req' = IF selection = NoneSel
                    THEN Respond(counted,
                                 Response(503, "No healthy backends available"))
                    ELSE [counted EXCEPT
                            !.pc = "timeout",
                            !.backend_label = Some(selection.label),
                            !.backend_url = Some(selection.url),
                            !.uri = Some([backend_url |-> selection.url,
                                          query |-> cleaned_query(req.query)]),
                            !.selected_in = Some(reloads),
                            !.snapshot = Some(state)]
    /\ UNCHANGED <<state, flags, statuses, monitor, reloads, reload_log, lastSel, sideVars, ksVars>>

\* line 237: let proxy_timeout = state.state.load().proxy_timeout_secs
proxy_LoadTimeout ==
    /\ req.pc = "timeout"
    /\ req' = [req EXCEPT !.pc = "forward",
                          !.proxy_timeout = Some(state.proxy_timeout_secs),
                          !.timeout_in = Some(reloads)]
    /\ UNCHANGED <<state, flags, statuses, monitor, reloads, reload_log, lastSel, sideVars, ksVars>>

\* lines 238-263: the forward under the timeout and the three outcomes
proxy_Forward ==
    /\ req.pc = "forward"
    /\ \E result \in ForwardResults :
         req' = after_forward([req EXCEPT !.forwards = @ + 1, !.sent = Some(result)],
                              result)
    /\ UNCHANGED <<state, flags, statuses, monitor, reloads, reload_log, lastSel, sideVars, ksVars>>

NextReq ==
    \/ Reload
    \/ proxy_Enter
    \/ proxy_Validate
    \/ proxy_Select
    \/ proxy_LoadTimeout
    \/ proxy_Forward

ReqSpec == InitReq /\ [][NextReq]_vars

\* the request has read everything it reads from the routing table
Forwarding == req.pc \in {"forward", "done"} /\ IsSome(req.timeout_in)

\* C13: a request forwards under the timeout of the table in which its
\* upstream and its method override were selected, and that table is not
\* older than the one current when the request arrived.
C13_OneSnapshotPerRequest ==
    Forwarding =>
        /\ Unwrap(req.proxy_timeout) = Unwrap(req.snapshot).proxy_timeout_secs
        /\ req.timeout_in = req.selected_in
        /\ Unwrap(req.selected_in) >= req.entered

----------------------------------------------------------------------------
(* The tables that boot and reloads install, checked under Spec *)

\* C14: every value of the current table's method_routes is the label of an
\* upstream of that table; the current table ranges over the boot table and
\* every table a reload installs.
C14_RoutesReferToUpstreams ==
    \A m \in DOMAIN state.method_routes : state.method_routes[m] \in LabelsIn(state)

\* a reload installed a table that pins a method
C14_Witness ==
    /\ reloads >= 1
    /\ \E m \in DOMAIN state.method_routes : state.method_routes[m] \in LabelsIn(state)

\* a configuration with no upstream, an empty or repeated label, or a weight 0
Malformed(c) ==
    \/ Len(c.backends) = 0
    \/ \E i \in 1 .. Len(c.backends) : c.backends[i].label = ""
    \/ \E i, j \in 1 .. Len(c.backends) :
          i # j /\ c.backends[i].label = c.backends[j].label
    \/ \E i \in 1 .. Len(c.backends) : c.backends[i].weight < 1

\* C15: the current table has at least one upstream, its labels are
\* non-empty and pairwise distinct and its weights are at least 1; and
\* load_config, which boot and reload both call, rejects every
\* configuration file that breaks one of these.
C15_TablesWellFormed ==
    /\ Len(state.backends) >= 1
    /\ \A i \in 1 .. Len(state.backends) :
          /\ state.backends[i].config.label # ""
          /\ state.backends[i].config.weight >= 1
    /\ \A i, j \in 1 .. Len(state.backends) :
          i # j => state.backends[i].config.label # state.backends[j].config.label
    /\ \A k \in 1 .. Len(ConfigFiles) :
          Malformed(ConfigFiles[k]) => ~load_config_ok(ConfigFiles[k])

\* a table installed by a reload is current, and the last SIGHUP after it
\* was rejected while the file can hold a malformed configuration
C15_Witness ==
    /\ reloads >= 1
    /\ reload_log = ReloadFailed
    /\ Len(state.backends) >= 2
    /\ \E k \in 1 .. Len(ConfigFiles) : Malformed(ConfigFiles[k])

----------------------------------------------------------------------------
(* keystore.rs: RedisKeyStore, its cache and the rate-limit counter, beside *)
(* the administrative tool (bin/rpc-admin.rs). One key is followed: its     *)
(* record api_key:<key>, its counter rate_limit:<key>, its cache entry.     *)

\* time_to_live(Duration::from_secs(60)) of the cache
CacheTtl == 60
\* redis.call("EXPIRE", KEYS[1], 1) of the counter
CounterTtl == 1

\* seconds that pass in one step of the clock
TickSecs == 10
\* largest rate_limit the administrator writes
MaxLimit == 2
\* largest value the counter takes in one lifetime
MaxHits == 3

\* the tasks that call validate_key at the same time
Callers == {"c1", "c2"}

\* whether a command sent to the store is answered or fails
Outcomes == {"ok", "fail"}

KeyInfo(owner, rate_limit) == [owner |-> owner, rate_limit |-> rate_limit]

\* the hash api_key:<key> as rpc-admin writes it
KeyRecord(owner, rate_limit, active) ==
    [owner |-> owner, rate_limit |-> rate_limit, active |-> active]

\* self.cache.get(key): the entry's value while the entry is younger than
\* the time to live, nothing otherwise
cache_get_SkipsTombstone(c) ==
    IF IsSome(c) /\ Unwrap(c).age < CacheTtl /\ IsSome(Unwrap(c).value)
    THEN Some(Unwrap(c).value) ELSE None
cache_get(c) ==
    IF IsSome(c) /\ Unwrap(c).age < CacheTtl THEN Some(Unwrap(c).value) ELSE None

\* self.cache.insert(key, value): a new entry, its age zero
cache_insert(value) == Some([value |-> value, age |-> 0])

\* line 73: if active == "false"
is_inactive_Never(active) == FALSE
is_inactive(active) == active = "false"

\* line 121: if count > limit
over_limit_Ge(count, limit) == count >= limit
over_limit(count, limit) == count > limit

\* lines 105-113, the script run by the store in one step on rate_limit:<key>:
\* INCR, then EXPIRE 1 if the count is 1; the counter after it, expire_by
\* being the count of the call whose EXPIRE is in force
script_ExpireAlways(counter) ==
    LET count == IF IsSome(counter) THEN Unwrap(counter).count + 1 ELSE 1
    IN  Some([count |-> count, expire |-> Some(CounterTtl), expire_by |-> count])
script_ExpireAtTwo(counter) ==
    LET count == IF IsSome(counter) THEN Unwrap(counter).count + 1 ELSE 1
    IN  Some([count |-> count,
              expire |-> IF count = 2 THEN Some(CounterTtl)
                         ELSE IF IsSome(counter) THEN Unwrap(counter).expire ELSE None,
              expire_by |-> IF count = 2 THEN 2
                            ELSE IF IsSome(counter) THEN Unwrap(counter).expire_by ELSE 0])
script(counter) ==
    LET count == IF IsSome(counter) THEN Unwrap(counter).count + 1 ELSE 1
    IN  Some([count |-> count,
              expire |-> IF count = 1 THEN Some(CounterTtl)
                         ELSE IF IsSome(counter) THEN Unwrap(counter).expire ELSE None,
              expire_by |-> IF count = 1 THEN 1
                            ELSE IF IsSome(counter) THEN Unwrap(counter).expire_by ELSE 0])

\* a validate_key call: pc is the await it is at, info the Option<KeyInfo>
\* it holds, result what it returned. The other fields record what the call
\* did: basis is what the cache probe returned, queried whether a command
\* about api_key:<key> was sent, count the counter value the script returned,
\* late whether the call started more than CacheTtl after the revocation,
\* steady whether the record was left alone since the call started, faulted
\* whether a command of the call failed.
IdleCall ==
    [pc |-> "idle", info |-> None, result |-> "", basis |-> None,
     queried |-> FALSE, count |-> None, late |-> FALSE, steady |-> TRUE,
     faulted |-> FALSE]

Done(call, result) == [call EXCEPT !.pc = "done", !.result = result]

\* validate_key, lines 134-143, once get_key_info has returned info_opt:
\* None is returned as it is, a limit of 0 is accepted without a command
\* (line 93), any other limit goes through the script
AfterKeyInfo(call, info_opt) ==
    IF info_opt = None THEN Done([call EXCEPT !.info = None], "none")
    ELSE IF Unwrap(info_opt).rate_limit = 0
         THEN Done([call EXCEPT !.info = info_opt], "KeyInfo")
         ELSE [call EXCEPT !.info = info_opt, !.pc = "script"]

\* since_revoke: seconds since rpc-admin revoke, if it ran; window: what the
\* script returned to each call of the counter's present lifetime; renewed:
\* whether a lifetime of the counter has ended
NoAudit == [since_revoke |-> None, window |-> <<>>, renewed |-> FALSE]

InitKs ==
    /\ redis_db = [record |-> None, counter |-> None]
    /\ cache = None
    /\ calls = [c \in Callers |-> IdleCall]
    /\ audit = NoAudit
    /\ \E k \in 1 .. Len(ConfigFiles) : Boot(ConfigFiles[k]) /\ k = 1
    /\ req = NoRequest
    /\ SideOff

routerVars == <<state, flags, statuses, monitor, reloads, reload_log, lastSel, reqVars>>

\* lines 131-132 and 36-38: the call starts and probes the cache
get_key_info_CacheProbe(c) ==
    /\ calls[c].pc = "idle"
    /\ LET call == [IdleCall EXCEPT
                      !.basis = cache_get(cache),
                      !.late = /\ IsSome(audit.since_revoke)
                               /\ Unwrap(audit.since_revoke) > CacheTtl]
       IN  calls' = [calls EXCEPT ![c] =
                       IF IsSome(cache_get(cache))
                       THEN AfterKeyInfo(call, Unwrap(cache_get(cache)))
                       ELSE [call EXCEPT !.pc = "exists"]]
    /\ UNCHANGED <<redis_db, cache, audit, routerVars>>

\* lines 41-58: the connection and EXISTS api_key:<key>
get_key_info_Exists(c) ==
    /\ calls[c].pc = "exists"
    /\ \E outcome \in Outcomes :
         calls' = [calls EXCEPT ![c] =
                     IF outcome = "fail" THEN Done([@ EXCEPT !.faulted = TRUE], "error")
                     ELSE IF redis_db.record = None
                          THEN [@ EXCEPT !.pc = "insert", !.info = None, !.queried = TRUE]
                          ELSE [@ EXCEPT !.pc = "owner", !.queried = TRUE]]
    /\ UNCHANGED <<redis_db, cache, audit, routerVars>>

\* lines 60-65: HGET owner
get_key_info_Owner(c) ==
    /\ calls[c].pc = "owner"
    /\ \E outcome \in Outcomes :
         calls' = [calls EXCEPT ![c] =
                     IF outcome = "fail" \/ redis_db.record = None
                     THEN Done([@ EXCEPT !.faulted = TRUE], "error")
                     ELSE [@ EXCEPT !.pc = "active"]]
    /\ UNCHANGED <<redis_db, cache, audit, routerVars>>

\* lines 66-76: HGET active, an error read as "true"
get_key_info_Active(c) ==
    /\ calls[c].pc = "active"
    /\ \E outcome \in Outcomes :
         LET active == IF outcome = "fail" \/ redis_db.record = None
                       THEN "true" ELSE Unwrap(redis_db.record).active
         IN  calls' = [calls EXCEPT ![c] =
                         IF is_inactive(active)
                         THEN [@ EXCEPT !.pc = "insert", !.info = None]
                         ELSE [@ EXCEPT !.pc = "rate_limit",
                                        !.faulted = (outcome = "fail")]]
    /\ UNCHANGED <<redis_db, cache, audit, routerVars>>

\* lines 78-85: HGET rate_limit and the KeyInfo built from what was read
get_key_info_RateLimit(c) ==
    /\ calls[c].pc = "rate_limit"
    /\ \E outcome \in Outcomes :
         calls' = [calls EXCEPT ![c] =
                     IF outcome = "fail" \/ redis_db.record = None
                     THEN Done([@ EXCEPT !.faulted = TRUE], "error")
                     ELSE [@ EXCEPT !.pc = "insert",
                                    !.info = Some(KeyInfo(Unwrap(redis_db.record).owner,
                                                          Unwrap(redis_db.record).rate_limit))]]
    /\ UNCHANGED <<redis_db, cache, audit, routerVars>>

\* lines 56-57, 74-75 and 86: cache.insert of the tombstone or of the
\* KeyInfo, then the rest of validate_key
get_key_info_Insert(c) ==
    /\ calls[c].pc = "insert"
    /\ cache' = cache_insert(calls[c].info)
    /\ calls' = [calls EXCEPT ![c] = AfterKeyInfo(@, calls[c].info)]
    /\ UNCHANGED <<redis_db, audit, routerVars>>

\* lines 91-126: check_rate_limit with a limit that is not 0
check_rate_limit(c) ==
    /\ calls[c].pc = "script"
    /\ \E outcome \in Outcomes :
         IF outcome = "fail"
         THEN /\ calls' = [calls EXCEPT ![c] = Done([@ EXCEPT !.faulted = TRUE], "error")]
              /\ UNCHANGED <<redis_db, audit>>
         ELSE LET counter == script(redis_db.counter)
                  count == Unwrap(counter).count
                  limit == Unwrap(calls[c].info).rate_limit
                  result == IF over_limit(count, limit) THEN "rate_limited" ELSE "KeyInfo"
              IN  /\ count <= MaxHits
                  /\ redis_db' = [redis_db EXCEPT !.counter = counter]
                  /\ calls' = [calls EXCEPT ![c] =
                                 Done([@ EXCEPT !.count = Some(count)], result)]
                  /\ audit' = [audit EXCEPT !.window =
                                 Append(@, [count |-> count, result |-> result])]
    /\ UNCHANGED <<cache, routerVars>>

\* validate_key has returned to proxy
validate_key_Return(c) ==
    /\ calls[c].pc = "done"
    /\ calls' = [calls EXCEPT ![c] = IdleCall]
    /\ UNCHANGED <<redis_db, cache, audit, routerVars>>

\* the calls in flight see the record change under them
Disturbed == [c \in Callers |-> [calls[c] EXCEPT !.steady = FALSE]]

\* rpc-admin create: the hash of a key that did not exist is written with
\* active "true"
admin_Create ==
    /\ redis_db.record = None
    /\ \E rate_limit \in 0 .. MaxLimit :
         redis_db' = [redis_db EXCEPT
                        !.record = Some(KeyRecord("alice", rate_limit, "true"))]
    /\ calls' = Disturbed
    /\ audit' = [audit EXCEPT !.since_revoke = None]
    /\ UNCHANGED <<cache, routerVars>>

\* rpc-admin revoke: active is set to "false" when the record exists
admin_Revoke ==
    /\ IsSome(redis_db.record)
    /\ Unwrap(redis_db.record).active = "true"
    /\ redis_db' = [redis_db EXCEPT
                      !.record = Some([Unwrap(@) EXCEPT !.active = "false"])]
    /\ calls' = Disturbed
    /\ audit' = [audit EXCEPT !.since_revoke = Some(0)]
    /\ UNCHANGED <<cache, routerVars>>

\* seconds pass: the cache entry ages and leaves the cache at CacheTtl, the
\* counter, whose expiry is CounterTtl, is gone, and the time since the
\* revocation is counted up to the first value above CacheTtl the clock takes
Tick ==
    /\ TickSecs >= CounterTtl
    /\ cache' = IF IsSome(cache) /\ Unwrap(cache).age + TickSecs < CacheTtl
                THEN Some([Unwrap(cache) EXCEPT !.age = @ + TickSecs])
                ELSE None
    /\ redis_db' = [redis_db EXCEPT
                      !.counter = IF IsSome(@) /\ IsSome(Unwrap(@).expire) THEN None ELSE @]
    /\ audit' = [since_revoke |->
                    IF IsSome(audit.since_revoke) /\ Unwrap(audit.since_revoke) <= CacheTtl
                    THEN Some(Unwrap(audit.since_revoke) + TickSecs)
                    ELSE audit.since_revoke,
                 window |-> IF IsSome(redis_db.counter) /\ IsSome(Unwrap(redis_db.counter).expire)
                            THEN <<>> ELSE audit.window,
                 renewed |-> \/ audit.renewed
                             \/ /\ IsSome(redis_db.counter)
                                /\ IsSome(Unwrap(redis_db.counter).expire)]
    /\ UNCHANGED <<calls, routerVars>>

\* the counter's expiry passes between two steps of the clock
CounterExpires ==
    /\ IsSome(redis_db.counter)
    /\ IsSome(Unwrap(redis_db.counter).expire)
    /\ redis_db' = [redis_db EXCEPT !.counter = None]
    /\ audit' = [audit EXCEPT !.window = <<>>, !.renewed = TRUE]
    /\ UNCHANGED <<cache, calls, routerVars>>

NextKs ==
    \/ \E c \in Callers :
         \/ get_key_info_CacheProbe(c)
         \/ get_key_info_Exists(c)
         \/ get_key_info_Owner(c)
         \/ get_key_info_Active(c)
         \/ get_key_info_RateLimit(c)
         \/ get_key_info_Insert(c)
         \/ check_rate_limit(c)
         \/ validate_key_Return(c)
    \/ admin_Create
    \/ admin_Revoke
    \/ Tick
    \/ CounterExpires

KsSpec == InitKs /\ [][NextKs]_vars

----------------------------------------------------------------------------
(* What validate_key returns, checked under KsSpec *)

Returned(c) == calls[c].pc = "done" /\ calls[c].result # "error"

\* the three answers of a call against key information: nothing, or a
\* KeyInfo with its rate_limit, and the counter value the call's script got
AnswersFor(call, info_opt) ==
    /\ call.result = "none" <=> info_opt = None
    /\ call.result = "rate_limited" <=>
          /\ IsSome(info_opt)
          /\ Unwrap(info_opt).rate_limit # 0
          /\ IsSome(call.count)
          /\ Unwrap(call.count) > Unwrap(info_opt).rate_limit
    /\ call.result = "KeyInfo" <=>
          /\ IsSome(info_opt)
          /\ \/ Unwrap(info_opt).rate_limit = 0
             \/ IsSome(call.count) /\ Unwrap(call.count) <= Unwrap(info_opt).rate_limit

\* the key information the store holds: the record when it exists and its
\* active field is "true"
StoreInfo ==
    IF IsSome(redis_db.record) /\ Unwrap(redis_db.record).active = "true"
    THEN Some(KeyInfo(Unwrap(redis_db.record).owner, Unwrap(redis_db.record).rate_limit))
    ELSE None

----------------------------------------------------------------------------
(* The rate-limit window, checked under KsSpec *)

\* the rate_limit of the key: the one its record was created with
L == Unwrap(redis_db.record).rate_limit

\* C17: in one lifetime of the counter the n-th call whose script runs gets
\* the count n, and it is accepted iff n is at most the key's rate_limit and
\* rate limited otherwise; the first call of the next lifetime counts from 1.
C17_FirstLAccepted ==
    \A n \in 1 .. Len(audit.window) :
      /\ audit.window[n].count = n
      /\ audit.window[n].result = "KeyInfo" <=> n <= L
      /\ audit.window[n].result = "rate_limited" <=> n > L

\* after a lifetime of the counter ended, a new one holds L accepted calls
\* and a rejected one, while both callers are in validate_key
C17_Witness ==
    /\ audit.renewed
    /\ Len(audit.window) > L
    /\ L >= 1
    /\ \A c \in Callers : calls[c].pc \notin {"idle"}

\* the calls of the present lifetime that saw the counter newly created
SawNew == {n \in 1 .. Len(audit.window) : audit.window[n].count = 1}

\* C18: a counter that exists has an expiry, and of the calls whose script
\* ran in the counter's present lifetime exactly one got the count 1, the
\* value on which the script sets the expiry.
C18_IncrAndExpireAtomic ==
    /\ IsSome(redis_db.counter) =>
          /\ Unwrap(redis_db.counter).expire = Some(CounterTtl)
          /\ Len(audit.window) = Unwrap(redis_db.counter).count
          /\ Cardinality(SawNew) = 1
    /\ redis_db.counter = None => audit.window = <<>>

\* both callers were at the script together and both ran it in one lifetime
\* of the counter: one got 1, the other 2
C18_Witness ==
    /\ IsSome(redis_db.counter)
    /\ \A c \in Callers : calls[c].pc = "done" /\ IsSome(calls[c].count)
    /\ {Unwrap(calls[c].count) : c \in Callers} = {1, 2}
    /\ Len(audit.window) = 2

----------------------------------------------------------------------------
(* Revocation and tombstones, checked under KsSpec *)

\* C19: a call that started more than CacheTtl seconds after rpc-admin
\* revoke set active to "false" returns none.
C19_RevokedWithinTtl ==
    \A c \in Callers : (Returned(c) /\ calls[c].late) => calls[c].result = "none"

\* the cache holds a tombstone for the key, younger than the time to live
TombstoneLive ==
    IsSome(cache) /\ Unwrap(cache).value = None /\ Unwrap(cache).age < CacheTtl

C20_Step ==
    \A c \in Callers :
      /\ (calls[c].pc = "insert" /\ calls[c].info = None /\ calls'[c].pc # "insert") =>
            /\ cache' = Some([value |-> None, age |-> 0])
            /\ calls'[c].pc = "done" /\ calls'[c].result = "none"
      /\ (calls[c].pc = "idle" /\ calls'[c].pc # "idle" /\ TombstoneLive) =>
            /\ calls'[c].pc = "done" /\ calls'[c].result = "none"
            /\ ~calls'[c].queried
            /\ redis_db' = redis_db
            /\ cache' = cache

\* C20: a call that found the key absent or inactive caches a tombstone and
\* returns none; a call that starts while a tombstone is live returns none
\* at once, sends no command to the store and leaves the counter alone.
C20_TombstoneAbsorbs == [][C20_Step]_vars

\* a call was answered none by the tombstone cached when the key was found
\* inactive, while the counter of the key is in a lifetime
C20_Witness ==
    /\ TombstoneLive
    /\ IsSome(redis_db.record) /\ Unwrap(redis_db.record).active = "false"
    /\ IsSome(redis_db.counter)
    /\ \E c \in Callers :
         /\ calls[c].pc = "done" /\ calls[c].result = "none"
         /\ calls[c].basis = Some(None)

----------------------------------------------------------------------------
(* Store failures, checked under KsSpec *)

\* a command of the call c fails in this step
FailsNow(c) == calls'[c].faulted /\ ~calls[c].faulted

\* the call c wrote its cache entry before this step: it missed the cache
\* and has come to the script
WroteEntry(c) == calls[c].pc = "script" /\ calls[c].basis = None

C21_Step ==
    \A c \in Callers :
      /\ FailsNow(c) =>
            /\ calls'[c].pc = "done" /\ calls'[c].result = "error"
            /\ cache' = cache
            /\ ~WroteEntry(c)
      /\ (calls[c].pc = "insert" /\ calls'[c].pc # "insert") => ~calls[c].faulted

\* C21: when a store command of a call fails, the call returns error and
\* has written nothing to the cache; a cache entry is only written by a
\* call none of whose commands failed.
C21_FailuresReturnError == [][C21_Step]_vars

----------------------------------------------------------------------------
(* handlers::proxy against tables whose flags change, as the handler tests
   build them: AppState with the backends and their flags given directly *)

HttpLabels == <<"u1", "u2">>

InitHttp ==
    /\ \E n \in 0 .. Len(HttpLabels), routes \in {NoRoutes, Route("getBlock", "u1")} :
         LET c == Config("redis://r",
                         [i \in 1 .. n |-> Backend(HttpLabels[i], 1, FALSE)],
                         routes, 10, HealthCheckConfig(2, 2))
         IN  /\ state = RouterState(RuntimeBackends(c, 0), c)
             /\ flags = [i \in 1 .. n |-> TRUE]
             /\ statuses = HealthState_new(BackendLabels(c.backends))
             /\ monitor = [backends |-> <<>>, health_config |-> c.health_check,
                           i |-> 1, pc |-> "off",
                           current_status |-> BackendHealthStatus_default]
    /\ reloads = 0
    /\ reload_log = "none"
    /\ lastSel = NoCall
    /\ req = IdleRequest
    /\ SideOff
    /\ KsOff

NextHttp ==
    \/ StoreFlag
    \/ proxy_Enter
    \/ proxy_Validate
    \/ proxy_Select
    \/ proxy_LoadTimeout
    \/ proxy_Forward

HttpSpec == InitHttp /\ [][NextHttp]_vars

\* the request was answered
Answered == req.pc = "done"

Status == Unwrap(req.response).status

\* no upstream of the table is healthy, or the table is empty
NoneHealthy == \A i \in 1 .. Len(state.backends) : ~flags[state.backends[i].healthy]

\* C22: the answer to a request follows the credential outcome: without an
\* api-key parameter 401, and validate_key was not called; validate_key
\* returning none 401, rate_limited 429, error 500; and none of the four
\* selected in the routing table.
C22_CredentialOutcomeDecides ==
    Answered =>
        /\ Query(req.query) = [rejected |-> FALSE, api_key |-> None] =>
              Status = 401 /\ req.validations = 0 /\ req.selections = 0
        /\ req.gate = Some("none") => Status = 401 /\ req.selections = 0
        /\ req.gate = Some("rate_limited") => Status = 429 /\ req.selections = 0
        /\ req.gate = Some("error") => Status = 500 /\ req.selections = 0

\* a credential error is answered 500 while no upstream is healthy
C22_Witness ==
    /\ Answered /\ req.gate = Some("error") /\ Status = 500
    /\ NoneHealthy

\* the response is the upstream's own
FromUpstream == Unwrap(req.response).upstream

\* a forward was sent only for a key validate_key accepted and to an
\* upstream select_backend returned
ContactedAfterGate ==
    req.forwards > 0 => req.gate = Some("KeyInfo") /\ IsSome(req.backend_label)

ForwardFailed == IsSome(req.sent) /\ Unwrap(req.sent).kind # "response"

\* an upstream other than the selected one is healthy
OtherHealthy ==
    \E i \in 1 .. Len(state.backends) :
      /\ flags[state.backends[i].healthy]
      /\ Some(state.backends[i].config.label) # req.backend_label

\* C24: a request selects at most once and forwards at most once; after a
\* failed or timed out forward the request is answered with the error, and
\* nothing more is selected or sent.
C24_OneSelectionOneForward ==
    /\ req.selections <= 1
    /\ req.forwards <= 1
    /\ ForwardFailed => Answered /\ ~FromUpstream /\ Status \in {502, 504}

\* a forward failed while another upstream was healthy
C24_Witness ==
    /\ ForwardFailed /\ Answered
    /\ req.selections = 1 /\ req.forwards = 1
    /\ OtherHealthy

\* C25: once an upstream was selected and the forward returned, the answer
\* is 504 when the deadline passed, 502 on a transport error, and otherwise
\* the upstream's response with its status, headers and body, to which only
\* the label of the upstream is added.
C25_ForwardOutcomeDecides ==
    IsSome(req.sent) =>
        LET result == Unwrap(req.sent)
            response == Unwrap(req.response)
        IN  /\ Answered
            /\ result.kind = "elapsed" => response.status = 504 /\ ~response.upstream
            /\ result.kind = "transport error" =>
                  response.status = 502 /\ ~response.upstream
            /\ result.kind = "response" =>
                  /\ response.status = result.resp.status
                  /\ response.headers = result.resp.headers
                  /\ response.body = result.resp.body
                  /\ response.SelectedBackend = req.backend_label

\* the upstream's own 401 reached the client
C25_Witness ==
    /\ IsSome(req.sent) /\ Unwrap(req.sent).kind = "response"
    /\ Answered /\ Status = 401 /\ Unwrap(req.response).body = "denied"

\* the backend label track_metrics and log_requests read off a response:
\* the SelectedBackend extension, "none" when there is none
recorded_backend(response) ==
    IF IsSome(response.SelectedBackend) THEN Unwrap(response.SelectedBackend)
    ELSE "none"

\* C26: the answer to a request for which an upstream was selected carries
\* that upstream's label, whether the forward succeeded, failed or timed
\* out, so the label the metrics and logging stages record is the selected
\* upstream; an answer made before the selection carries none.
C26_AnswerCarriesLabel ==
    Answered =>
        IF IsSome(req.backend_label)
        THEN recorded_backend(Unwrap(req.response)) = Unwrap(req.backend_label)
        ELSE Unwrap(req.response).SelectedBackend = None

\* C27: the query sent to the upstream is the inbound parameters other than
\* api-key, in their order and unchanged, and the key the gate accepted
\* appears nowhere in it, wherever and however encoded the api-key parameter
\* stood in the inbound query.
C27_KeyNeverForwarded ==
    IsSome(req.uri) =>
        LET outbound == Unwrap(req.uri).query
        IN  /\ outbound = SelectSeq(req.query, LAMBDA p : decode(p.name) # "api-key")
            /\ \A i \in 1 .. Len(outbound) : Some(outbound[i].value) # req.api_key

----------------------------------------------------------------------------
(* handlers::health_endpoint and the two views of health, checked under Spec *)

\* handlers.rs 282-317: the report of GET /health on table st and status
\* map hs
health_endpoint(st, hs) ==
    LET status(i) == unwrap_or_default(get_status(hs, st.backends[i].config.label))
        backends == [i \in 1 .. Len(st.backends) |->
                       [label |-> st.backends[i].config.label,
                        healthy |-> status(i).healthy,
                        last_check |-> status(i).last_check_time,
                        consecutive_failures |-> status(i).consecutive_failures,
                        consecutive_successes |-> status(i).consecutive_successes,
                        last_error |-> status(i).last_error]]
        any_healthy == \E i \in 1 .. Len(st.backends) : status(i).healthy
    IN  [overall_status |-> IF any_healthy THEN "healthy" ELSE "unhealthy",
         backends |-> backends]

\* the status record of the i-th upstream of the current table
RecordOf(i) == get_status(statuses, state.backends[i].config.label)

\* C28: /health reports overall_status healthy exactly when some upstream
\* of the current table has a status record with healthy = true, and lists
\* the upstreams of the current table in their order, each with the healthy
\* value and the counters of its record.
C28_HealthReportsRecords ==
    LET report == health_endpoint(state, statuses)
    IN  /\ report.overall_status = "healthy" <=>
              \E i \in 1 .. Len(state.backends) :
                 IsSome(RecordOf(i)) /\ Unwrap(RecordOf(i)).healthy
        /\ Len(report.backends) = Len(state.backends)
        /\ \A i \in 1 .. Len(state.backends) :
             /\ report.backends[i].label = state.backends[i].config.label
             /\ IsSome(RecordOf(i))
             /\ report.backends[i].healthy = Unwrap(RecordOf(i)).healthy
             /\ report.backends[i].consecutive_failures =
                   Unwrap(RecordOf(i)).consecutive_failures
             /\ report.backends[i].consecutive_successes =
                   Unwrap(RecordOf(i)).consecutive_successes

\* the request with this method and this draw is answered 503
Gets503(rpc_method, r) == select_backend(state, flags, rpc_method, r) = NoneSel

\* C29: while the monitor is not between the write of a record and the
\* store of the flag, the flag of every upstream of the current table
\* equals the healthy field of the status /health reads for it, so that
\* a request is answered 503 exactly when /health reports unhealthy.
C29_ViewsAgree ==
    monitor.pc # "store" =>
        /\ \A i \in 1 .. Len(state.backends) :
             flags[state.backends[i].healthy]
                = health_endpoint(state, statuses).backends[i].healthy
        /\ \A rpc_method \in MethodArgs,
              r \in DrawRange(healthy_total_weight(state, flags)) :
             Gets503(rpc_method, r)
                <=> health_endpoint(state, statuses).overall_status = "unhealthy"

\* no probe of the i-th upstream of the current table has completed: its
\* record is the one HealthState::new made
Unprobed(i) == IsSome(RecordOf(i)) /\ Unwrap(RecordOf(i)).last_check_time = None

\* C30: as long as no probe of an upstream has completed, its flag is true
\* and its record is healthy with both counters zero; and a non-empty
\* table of such upstreams answers no request 503.
C30_OptimisticStart ==
    /\ \A i \in 1 .. Len(state.backends) :
         Unprobed(i) =>
            /\ flags[state.backends[i].healthy] = TRUE
            /\ Unwrap(RecordOf(i)).healthy = TRUE
            /\ Unwrap(RecordOf(i)).consecutive_failures = 0
            /\ Unwrap(RecordOf(i)).consecutive_successes = 0
    /\ (Len(state.backends) > 0 /\ \A i \in 1 .. Len(state.backends) : Unprobed(i)) =>
          \A rpc_method \in MethodArgs,
             r \in DrawRange(healthy_total_weight(state, flags)) :
            ~Gets503(rpc_method, r)

\* the first probe of the sweep failed while the second upstream's first
\* probe has not completed
C30_Witness ==
    /\ Len(state.backends) >= 2
    /\ IsSome(RecordOf(1)) /\ Unwrap(RecordOf(1)).consecutive_failures = 1
    /\ Unprobed(2)
    /\ flags[state.backends[2].healthy]

----------------------------------------------------------------------------
(* handlers::ws_proxy and handlers::handle_ws_connection: one WebSocket
   session against a table whose flags change *)

\* relayable frames read from the two peers in one session
MaxFrames == 2

\* the kinds of axum's ws::Message and of tungstenite's Message that carry
\* a payload through the relay
DataKinds == {"Text", "Binary", "Ping", "Pong"}

Message(kind, data) == [lib |-> "axum", kind |-> kind, data |-> data]
TungsteniteMessage(kind, data) == [lib |-> "tungstenite", kind |-> kind, data |-> data]

Payloads(kind) == IF kind = "Text" THEN {"x", "y"} ELSE {"x"}

\* what client_read.next().await yields: Some(Ok(msg)), Some(Err(_)), None
ClientEvents ==
    UNION {{[ev |-> "msg", msg |-> Message(k, d)] : d \in Payloads(k)} : k \in DataKinds}
      \cup {[ev |-> "msg", msg |-> Message("Close", "")]}
      \cup {[ev |-> "error"], [ev |-> "end"]}

\* what backend_read.next().await yields
BackendEvents ==
    UNION {{[ev |-> "msg", msg |-> TungsteniteMessage(k, d)] : d \in Payloads(k)}
             : k \in DataKinds}
      \cup {[ev |-> "msg", msg |-> TungsteniteMessage("Close", "")],
            [ev |-> "msg", msg |-> TungsteniteMessage("Frame", "x")]}
      \cup {[ev |-> "error"], [ev |-> "end"]}

\* lines 409-443: Message::K(d) is sent on as TungsteniteMessage::K(d)
to_backend_PingAsPong(msg) ==
    TungsteniteMessage(IF msg.kind = "Ping" THEN "Pong" ELSE msg.kind, msg.data)
to_backend(msg) == TungsteniteMessage(msg.kind, msg.data)

\* lines 451-473: TungsteniteMessage::K(d) is sent on as Message::K(d)
to_client(msg) == Message(msg.kind, msg.data)

\* one relay direction: the loop is at its read, at its send with msg in
\* hand, or has ended; received are the relayable messages read so far,
\* delivered the messages whose send returned Ok
NewDirection == [pc |-> "read", msg |-> None, received |-> <<>>, delivered |-> <<>>]

\* the key of the session's client, as the credential store has it
KeyStates == {"valid", "revoked", "rate_limited"}

\* what validate_key returns for the key; any call can fail
gate_results(key) ==
    {IF key = "valid" THEN "KeyInfo"
     ELSE IF key = "revoked" THEN "none" ELSE "rate_limited", "error"}

\* lines 334-337: Ok(Some(_)) is authorized
ws_authorized_Anything(result) == TRUE
ws_authorized(result) == result = "KeyInfo"

\* lines 338-352: the answers to the other results of validate_key
ws_gate_response(result) ==
    IF result = "none" THEN Response(401, "Unauthorized")
    ELSE IF result = "rate_limited" THEN Response(429, "Rate limit exceeded")
    ELSE Response(500, "Internal Server Error")

\* no session is open. Of a session: params is what the Query extractor
\* made of the query of the upgrade request, gate what validate_key returned, response the
\* answer to the upgrade request, dials the number of connect_async calls,
\* c2b and b2c the two relay directions, ended_by the peer and the event
\* that ended a direction, close_to the peer the final Close was sent to,
\* since_change whether a frame was delivered since the key last changed.
IdleSession ==
    [pc |-> "idle", key |-> "valid", params |-> Query(<<>>), api_key |-> None,
     gate |-> None, validations |-> 0, selections |-> 0,
     backend_label |-> None, backend_url |-> None, response |-> None,
     upgraded |-> FALSE, dials |-> 0, c2b |-> NewDirection, b2c |-> NewDirection,
     ended_by |-> None, close_to |-> None, since_change |-> FALSE]

Answer(s, response) == [s EXCEPT !.pc = "done", !.response = Some(response)]

\* lines 319-331: an upgrade request arrives; the Query extractor as in proxy
ws_Enter ==
    /\ session.pc \in {"idle", "done"}
    /\ \E query \in Queries :
         LET s == [IdleSession EXCEPT !.params = Query(query), !.key = session.key]
         IN  session' =
               IF Query(query).rejected
               THEN Answer(s, Response(400, "Failed to deserialize query string"))
               ELSE IF Query(query).api_key = None
                    THEN Answer(s, Response(401, "Unauthorized"))
                    ELSE [s EXCEPT !.pc = "validate", !.api_key = Query(query).api_key]
    /\ UNCHANGED <<state, flags, statuses, monitor, reloads, reload_log, lastSel,
                   req, ext, mock, ksVars>>

\* lines 333-352: state.keystore.validate_key(&api_key).await
ws_Validate ==
    /\ session.pc = "validate"
    /\ \E result \in gate_results(session.key) :
         LET s == [session EXCEPT !.gate = Some(result), !.validations = @ + 1]
         IN  session' = IF ws_authorized(result) THEN [s EXCEPT !.pc = "select"]
                        ELSE Answer(s, ws_gate_response(result))
    /\ UNCHANGED <<state, flags, statuses, monitor, reloads, reload_log, lastSel,
                   req, ext, mock, ksVars>>

\* lines 354-379: state.select_ws_backend(); None is answered 503, a panic
\* of the selector ends the handler without an answer, and otherwise the
\* upgrade is accepted (101) with handle_ws_connection as its callback
ws_Select ==
    /\ session.pc = "select"
    /\ \E r \in DrawRange(total_weight(state, flags)) :
         LET selection == select_ws_backend(state, flags, r)
             s == [session EXCEPT !.selections = @ + 1]
         IN  session' =
               IF selection = NoneSel
               THEN Answer(s, Response(503, "No healthy WebSocket backends available"))
               ELSE IF selection = PanicSel
                    THEN [s EXCEPT !.pc = "done"]
                    ELSE [s EXCEPT !.pc = "dial",
                                   !.backend_label = Some(selection.label),
                                   !.backend_url = Some(selection.url),
                                   !.response = Some(Response(101, "")),
                                   !.upgraded = TRUE]
    /\ UNCHANGED <<state, flags, statuses, monitor, reloads, reload_log, lastSel,
                   req, ext, mock, ksVars>>

\* lines 388-399: connect_async(&backend_url).await; on Err the callback
\* returns and the client socket is dropped
ws_Dial ==
    /\ session.pc = "dial"
    /\ \E connected \in BOOLEAN :
         session' = IF connected
                    THEN [session EXCEPT !.pc = "relay", !.dials = @ + 1]
                    ELSE [session EXCEPT !.pc = "done", !.dials = @ + 1,
                            !.ended_by = Some([peer |-> "backend", event |-> "dial"])]
    /\ UNCHANGED <<state, flags, statuses, monitor, reloads, reload_log, lastSel,
                   req, ext, mock, ksVars>>

\* tokio::select! polls the two directions until one of them has ended
Relaying ==
    /\ session.pc = "relay"
    /\ session.c2b.pc # "ended"
    /\ session.b2c.pc # "ended"

\* the loop of a direction after its read returned event e (lines 407-446,
\* 450-478): a relayable message is taken to the send, everything else
\* breaks the loop
after_read(dir, e) ==
    IF e.ev = "msg" /\ e.msg.kind \in DataKinds
    THEN [dir EXCEPT !.pc = "send", !.msg = Some(e.msg),
                     !.received = Append(@, e.msg)]
    ELSE [dir EXCEPT !.pc = "ended"]

\* the event that broke the loop at a read
Broke(e) == IF e.ev = "msg" THEN e.msg.kind ELSE e.ev

\* the loop of a direction after its send of `out` returned: Ok goes back
\* to the read, Err breaks the loop
after_send(dir, out, sent) ==
    IF sent
    THEN [dir EXCEPT !.pc = "read", !.msg = None, !.delivered = Append(@, out)]
    ELSE [dir EXCEPT !.pc = "ended", !.msg = None]

\* what the relay of one frame does to the session besides the direction
relayed_Revalidate(s) ==
    [s EXCEPT !.validations = @ + 1, !.since_change = TRUE]
relayed(s) == [s EXCEPT !.since_change = TRUE]

FramesRead == Len(session.c2b.received) + Len(session.b2c.received)

\* lines 407-446, client_read.next().await
c2b_Read ==
    /\ Relaying
    /\ session.c2b.pc = "read"
    /\ \E e \in ClientEvents :
         /\ (e.ev = "msg" /\ e.msg.kind \in DataKinds)
               => FramesRead < MaxFrames
         /\ LET dir == after_read(session.c2b, e)
            IN  session' =
                  [session EXCEPT
                     !.c2b = dir,
                     !.ended_by = IF dir.pc = "ended"
                                  THEN Some([peer |-> "client", event |-> Broke(e)])
                                  ELSE @]
    /\ UNCHANGED <<state, flags, statuses, monitor, reloads, reload_log, lastSel,
                   req, ext, mock, ksVars>>

\* lines 409-443, backend_write.send(..).await
c2b_Send ==
    /\ Relaying
    /\ session.c2b.pc = "send"
    /\ \E sent \in BOOLEAN :
         LET dir == after_send(session.c2b, to_backend(Unwrap(session.c2b.msg)), sent)
             s == IF sent THEN relayed(session) ELSE session
         IN  session' =
               [s EXCEPT
                  !.c2b = dir,
                  !.ended_by = IF sent THEN @
                               ELSE Some([peer |-> "backend", event |-> "write error"])]
    /\ UNCHANGED <<state, flags, statuses, monitor, reloads, reload_log, lastSel,
                   req, ext, mock, ksVars>>

\* lines 450-478, backend_read.next().await
b2c_Read ==
    /\ Relaying
    /\ session.b2c.pc = "read"
    /\ \E e \in BackendEvents :
         /\ (e.ev = "msg" /\ e.msg.kind \in DataKinds)
               => FramesRead < MaxFrames
         /\ LET dir == after_read(session.b2c, e)
            IN  session' =
                  [session EXCEPT
                     !.b2c = dir,
                     !.ended_by = IF dir.pc = "ended"
                                  THEN Some([peer |-> "backend", event |-> Broke(e)])
                                  ELSE @]
    /\ UNCHANGED <<state, flags, statuses, monitor, reloads, reload_log, lastSel,
                   req, ext, mock, ksVars>>

\* lines 452-470, client_write.send(..).await
b2c_Send ==
    /\ Relaying
    /\ session.b2c.pc = "send"
    /\ \E sent \in BOOLEAN :
         LET dir == after_send(session.b2c, to_client(Unwrap(session.b2c.msg)), sent)
             s == IF sent THEN relayed(session) ELSE session
         IN  session' =
               [s EXCEPT
                  !.b2c = dir,
                  !.ended_by = IF sent THEN @
                               ELSE Some([peer |-> "client", event |-> "write error"])]
    /\ UNCHANGED <<state, flags, statuses, monitor, reloads, reload_log, lastSel,
                   req, ext, mock, ksVars>>

\* lines 482-492: the arm of select! of the direction that ended sends a
\* Close, to the backend when client_to_backend ended and to the client
\* when backend_to_client ended; the other direction is dropped with
\* whatever it had in hand, and the callback returns
close_target(s) == IF s.c2b.pc = "ended" THEN "backend" ELSE "client"

ws_Teardown ==
    /\ session.pc = "relay"
    /\ session.c2b.pc = "ended" \/ session.b2c.pc = "ended"
    /\ session' = [session EXCEPT !.pc = "done",
                                  !.close_to = Some(close_target(session))]
    /\ UNCHANGED <<state, flags, statuses, monitor, reloads, reload_log, lastSel,
                   req, ext, mock, ksVars>>

\* the administrator revokes or restores the key, or its window fills or
\* expires (rpc-admin.rs 101-118, keystore.rs 91-126)
key_Changes ==
    /\ \E k \in KeyStates \ {session.key} :
         session' = [session EXCEPT !.key = k, !.since_change = FALSE]
    /\ UNCHANGED <<state, flags, statuses, monitor, reloads, reload_log, lastSel,
                   req, ext, mock, ksVars>>

InitWs ==
    /\ \E n \in 0 .. 1, w \in BOOLEAN :
         LET c == Config("redis://r",
                         [i \in 1 .. n |-> Backend(HttpLabels[i], 1, w)],
                         NoRoutes, 10, HealthCheckConfig(2, 2))
         IN  /\ state = RouterState(RuntimeBackends(c, 0), c)
             /\ flags = [i \in 1 .. n |-> TRUE]
             /\ statuses = HealthState_new(BackendLabels(c.backends))
             /\ monitor = [backends |-> <<>>, health_config |-> c.health_check,
                           i |-> 1, pc |-> "off",
                           current_status |-> BackendHealthStatus_default]
    /\ reloads = 0
    /\ reload_log = "none"
    /\ lastSel = NoCall
    /\ req = NoRequest
    /\ session = IdleSession
    /\ ext = "off"
    /\ mock = "off"
    /\ KsOff

NextWs ==
    \/ StoreFlag
    \/ key_Changes
    \/ ws_Enter
    \/ ws_Validate
    \/ ws_Select
    \/ ws_Dial
    \/ c2b_Read
    \/ c2b_Send
    \/ b2c_Read
    \/ b2c_Send
    \/ ws_Teardown

WsSpec == InitWs /\ [][NextWs]_vars

\* the monitor is not part of a session; the two relay loops and the arm of
\* select! are polled again and again, and the peers' events arrive
FairWsSpec ==
    WsSpec /\ WF_vars(ws_Validate) /\ WF_vars(ws_Select) /\ WF_vars(ws_Dial)
           /\ WF_vars(c2b_Send) /\ WF_vars(b2c_Send) /\ WF_vars(ws_Teardown)

\* the session's answer to the upgrade request
WsStatus == Unwrap(session.response).status

\* C31: the upgrade is accepted and the upstream dialled only after
\* validate_key accepted the key and select_ws_backend returned an
\* upstream; a missing key and validate = none are answered 401,
\* rate_limited 429, error 500, no upstream 503, and none of these is
\* upgraded or dials.
C31_UpgradeOnlyAfterGate ==
    /\ (session.upgraded \/ session.dials > 0) =>
          session.gate = Some("KeyInfo") /\ IsSome(session.backend_label)
    /\ (session.pc = "done" /\ ~session.upgraded /\ IsSome(session.response)) =>
          /\ session.dials = 0
          /\ session.params = [rejected |-> FALSE, api_key |-> None] =>
                WsStatus = 401 /\ session.validations = 0
          /\ session.gate = Some("none") => WsStatus = 401
          /\ session.gate = Some("rate_limited") => WsStatus = 429
          /\ session.gate = Some("error") => WsStatus = 500
          /\ (session.gate = Some("KeyInfo")) => WsStatus = 503
    /\ (session.pc = "done" /\ IsSome(session.gate) /\ session.gate # Some("KeyInfo")) =>
          ~session.upgraded /\ session.selections = 0

\* a rate-limited key was answered 429 while an upstream with a WebSocket
\* URL was healthy
C31_Witness ==
    /\ session.pc = "done" /\ session.gate = Some("rate_limited")
    /\ WsStatus = 429 /\ session.dials = 0
    /\ ws_backends(state, flags) # <<>>

\* the messages of seq as the other library's messages of the same kind
\* and payload
SameFrames(a, b) ==
    /\ Len(a) = Len(b)
    /\ \A i \in 1 .. Len(a) : a[i].kind = b[i].kind /\ a[i].data = b[i].data

\* C32: in each direction the frames delivered are a prefix of the Text,
\* Binary, Ping and Pong frames read from the sending peer, each with its
\* kind and payload: nothing is duplicated, reordered or inserted.
C32_DeliveredIsPrefix ==
    session.upgraded =>
        \A dir \in {session.c2b, session.b2c} :
          /\ Len(dir.delivered) <= Len(dir.received)
          /\ SameFrames(dir.delivered, SubSeq(dir.received, 1, Len(dir.delivered)))
          /\ \A i \in 1 .. Len(dir.received) : dir.received[i].kind \in DataKinds

\* a Ping and then a Text "y" of the client were delivered to the backend
C32_Witness ==
    /\ Len(session.c2b.delivered) = 2
    /\ session.c2b.received[1] = Message("Ping", "x")
    /\ session.c2b.delivered[1] = TungsteniteMessage("Ping", "x")
    /\ session.c2b.delivered[2] = TungsteniteMessage("Text", "y")

\* the session is over after the upstream was connected
SessionEnded == session.pc = "done" /\ session.dials > 0 /\ IsSome(session.close_to)

Opposite(peer) == IF peer = "client" THEN "backend" ELSE "client"

\* C33: when a peer closed, ended its stream or failed on a read or on a
\* write, the session is torn down with a Close sent to the opposite peer,
\* and nothing is relayed afterwards; a failed dial ends the session too.
C33_CloseToOppositePeer ==
    /\ SessionEnded =>
          session.close_to = Some(Opposite(Unwrap(session.ended_by).peer))
    /\ (session.pc = "done" /\ session.dials > 0) => IsSome(session.ended_by)

\* the frame a direction has in hand can be delivered now
CanDeliver ==
    /\ session.c2b.pc = "send" =>
          ENABLED (c2b_Send /\ Len(session'.c2b.delivered) = Len(session.c2b.delivered) + 1)
    /\ session.b2c.pc = "send" =>
          ENABLED (b2c_Send /\ Len(session'.b2c.delivered) = Len(session.b2c.delivered) + 1)

\* C34: a session calls validate_key once, at the upgrade: however many
\* frames were relayed the count of calls is one, and a session whose key
\* has been revoked or rate-limited since goes on relaying.
C34_GateOnlyAtUpgrade ==
    session.upgraded =>
        /\ session.validations = 1
        /\ Relaying => CanDeliver

\* a frame was delivered after the key of the running session was revoked
C34_Witness ==
    /\ session.pc = "relay" /\ session.key = "revoked"
    /\ session.since_change
    /\ session.validations = 1

----------------------------------------------------------------------------
(* What a probe touches, checked under Spec *)

\* the step is one of the monitor's, on the upstream MonitorBackend
ProbeStep == monitor.pc \in {"probe", "store"} /\ monitor' # monitor

C35_Step ==
    ProbeStep =>
        LET A == MonitorBackend
        IN  /\ DOMAIN statuses' = DOMAIN statuses
            /\ \A l \in DOMAIN statuses \ {A.config.label} : statuses'[l] = statuses[l]
            /\ DOMAIN flags' = DOMAIN flags
            /\ \A cell \in DOMAIN flags \ {A.healthy} : flags'[cell] = flags[cell]
            /\ state' = state
            /\ cache' = cache
            /\ req' = req

\* C35: a probe of upstream A, successful or not, changes only A's status
\* record and A's flag: the records and flags of the other upstreams, the
\* routing table with its method_routes and the credential cache stay as
\* they are, so that requests see the probe through A's healthy bit only.
C35_ProbeTouchesOnlyItsUpstream == [][C35_Step]_vars

\* the probes of the first upstream failed and made it unhealthy while the
\* second upstream's record and flag say healthy after a successful probe
C35_Witness ==
    /\ Len(monitor.backends) >= 2
    /\ LET A == monitor.backends[1]
           B == monitor.backends[2]
       IN  /\ ~statuses[A.config.label].healthy /\ ~flags[A.healthy]
           /\ IsSome(statuses[A.config.label].last_error)
           /\ statuses[B.config.label].healthy /\ flags[B.healthy]
           /\ statuses[B.config.label].consecutive_successes >= 1
           /\ statuses[B.config.label].consecutive_failures = 0

----------------------------------------------------------------------------
(* The sweeps of the monitor, checked under MonitorSpec *)

\* health_check_loop alone: the task works on the vector, the HealthState
\* and the thresholds it was given when spawned, and is scheduled again
\* and again
NextMonitor == Probe \/ Publish \/ Sleep

MonitorSpec ==
    Init /\ [][NextMonitor]_vars
         /\ WF_vars(Probe) /\ WF_vars(Publish) /\ WF_vars(Sleep)

C36_Step ==
    /\ (monitor.pc = "probe" /\ monitor' # monitor) =>
          /\ monitor'.pc = "store" /\ monitor'.i = monitor.i
          /\ statuses'[MonitorBackend.config.label].last_check_time = Some("now")
    /\ (monitor.pc = "store" /\ monitor' # monitor) =>
          IF monitor.i < Len(monitor.backends)
          THEN monitor'.pc = "probe" /\ monitor'.i = monitor.i + 1
          ELSE monitor'.pc = "sleep"
    /\ (monitor.pc = "sleep" /\ monitor' # monitor) =>
          monitor'.pc = "probe" /\ monitor'.i = 1

\* the k-th upstream of the monitor's vector has just been probed
Probed(k) == monitor.pc = "store" /\ monitor.i = k

\* C36: the monitor sweeps forever: a sweep probes the upstreams it
\* monitors one after the other in their order, each probe ends and sets
\* last_check_time, after the last one the loop sleeps and starts again at
\* the first, whatever the probes returned; so every monitored upstream
\* is probed again and again.
C36_SweepsForever ==
    /\ [][C36_Step]_vars
    /\ \A k \in 1 .. Len(LabelSeq) :
         []<>(k <= Len(monitor.backends) => Probed(k))

\* the second upstream has been probed in a sweep in which the probe of
\* the first one failed
C36_Witness ==
    /\ Probed(2)
    /\ IsSome(statuses[monitor.backends[1].config.label].last_error)

----------------------------------------------------------------------------
(* handlers::extract_rpc_method: the middleware before proxy *)

MAX_BODY_SIZE == 10 * 1024 * 1024

\* the lengths of the inbound bodies, in bytes
BodySizes == {64, MAX_BODY_SIZE - 1, MAX_BODY_SIZE, MAX_BODY_SIZE + 1, 2 * MAX_BODY_SIZE}

\* what the bytes of a body are when read as JSON: not JSON at all, an
\* object with or without a member "method", or an array. A string is
\* given by its value and by whether its bytes hold an escape sequence,
\* as in "getSlot" for getSlot.
String(value, escaped) == [type |-> "string", value |-> value, escaped |-> escaped]

JsonValues ==
    {String(v, e) : v \in Methods, e \in BOOLEAN} \cup {[type |-> "number"], [type |-> "null"]}

Documents ==
    {[json |-> FALSE]}
      \cup {[json |-> TRUE, shape |-> "object", members |-> {"id"}]}
      \cup {[json |-> TRUE, shape |-> "object", members |-> {"id", "method"}, method |-> v]
              : v \in JsonValues}
      \cup {[json |-> TRUE, shape |-> "array", first |-> v] : v \in JsonValues}

Bodies == {[len |-> n, doc |-> d] : n \in BodySizes, d \in Documents}

EmptyBody == [len |-> 0, doc |-> [json |-> FALSE]]

\* to_bytes(body, MAX_BODY_SIZE): Err when the body is longer than the limit
to_bytes(body, limit) == IF body.len <= limit THEN Some(body) ELSE None

\* deserialization of one JSON value as Option<&'a str>: null is None, a
\* string is borrowed from the buffer, which a string with an escape
\* sequence does not allow, and any other value is an error
borrowed_str(v) ==
    IF v.type = "null" THEN [ok |-> TRUE, method |-> None]
    ELSE IF v.type = "string" /\ ~v.escaped THEN [ok |-> TRUE, method |-> Some(v.value)]
    ELSE [ok |-> FALSE, method |-> None]

\* serde_json::from_slice::<MethodProbe>(&body_bytes), MethodProbe being
\* the derived struct { method: Option<&'a str> } (lines 31-34): an object
\* is read by its member "method", absent meaning None, and an array by
\* position, its first element being the field
from_slice(doc) ==
    IF ~doc.json THEN [ok |-> FALSE, method |-> None]
    ELSE IF doc.shape = "array" THEN borrowed_str(doc.first)
    ELSE IF "method" \in doc.members THEN borrowed_str(doc.method)
    ELSE [ok |-> TRUE, method |-> None]

\* lines 42-67: what the middleware hands to next.run: the body and the
\* RpcMethod extension
extract_rpc_method(body) ==
    LET body_bytes == to_bytes(body, MAX_BODY_SIZE)
    IN  IF body_bytes = None
        THEN [body |-> EmptyBody, RpcMethod |-> None]
        ELSE LET probe == from_slice(Unwrap(body_bytes).doc)
             IN  IF probe.ok /\ IsSome(probe.method)
                 THEN [body |-> Unwrap(body_bytes), RpcMethod |-> probe.method]
                 ELSE [body |-> Unwrap(body_bytes), RpcMethod |-> None]

NoBody == [pc |-> "idle", body |-> EmptyBody, next |-> None]

InitExt ==
    /\ Boot(ConfigFiles[1])
    /\ req = NoRequest
    /\ session = "off"
    /\ ext = NoBody
    /\ mock = "off"
    /\ KsOff

\* a request with its body reaches the middleware
ext_Arrive ==
    /\ ext.pc \in {"idle", "passed"}
    /\ \E body \in Bodies : ext' = [pc |-> "arrived", body |-> body, next |-> None]
    /\ UNCHANGED <<state, flags, statuses, monitor, reloads, reload_log, lastSel,
                   req, session, mock, ksVars>>

\* the middleware runs and calls next.run
ext_Run ==
    /\ ext.pc = "arrived"
    /\ ext' = [ext EXCEPT !.pc = "passed", !.next = Some(extract_rpc_method(ext.body))]
    /\ UNCHANGED <<state, flags, statuses, monitor, reloads, reload_log, lastSel,
                   req, session, mock, ksVars>>

NextExt == ext_Arrive \/ ext_Run

ExtSpec == InitExt /\ [][NextExt]_vars

\* the body is JSON with a member "method" that is a string
HasStringMethod(doc) ==
    /\ doc.json /\ doc.shape = "object"
    /\ "method" \in doc.members /\ doc.method.type = "string"

\* C37: a body of at most 10 MiB, the limit included, reaches the handler
\* byte for byte, and the method tag is set exactly when the body parses
\* and has a string method field, the tag being that string; a longer body
\* is passed on empty and without a tag.
C37_BodyUntouchedTagIffMethod ==
    ext.pc = "passed" =>
        LET next == Unwrap(ext.next)
        IN  IF ext.body.len <= MAX_BODY_SIZE
            THEN /\ next.body = ext.body
                 /\ IsSome(next.RpcMethod) <=> HasStringMethod(ext.body.doc)
                 /\ IsSome(next.RpcMethod) => next.RpcMethod = Some(ext.body.doc.method.value)
            ELSE next.body = EmptyBody /\ next.RpcMethod = None

----------------------------------------------------------------------------
(* mock.rs: MockKeyStore, the credential store of the handler tests *)

\* calls of validate_key followed per key
MaxCalls == 2

MockKeys == {"K", "unknown"}

ErrorTexts == {"boom", "Rate limit exceeded"}

OkNone == [ok |-> TRUE, info |-> None, err |-> ""]
OkSome(info) == [ok |-> TRUE, info |-> Some(info), err |-> ""]
ErrText(msg) == [ok |-> FALSE, info |-> None, err |-> msg]

\* MockKeyStore::validate_key after the call count was incremented
\* (lines 68-96): error_keys, then inactive_keys, then keys with
\* rate_limited_keys, then Ok(None)
mock_result_LimitBeforeInactive(m, key) ==
    IF key \in DOMAIN m.error_keys THEN ErrText(m.error_keys[key])
    ELSE IF key \in DOMAIN m.keys /\ key \in m.rate_limited_keys
         THEN ErrText("Rate limit exceeded")
    ELSE IF key \in m.inactive_keys THEN OkNone
    ELSE IF key \in DOMAIN m.keys THEN OkSome(m.keys[key])
    ELSE OkNone
mock_result(m, key) ==
    IF key \in DOMAIN m.error_keys THEN ErrText(m.error_keys[key])
    ELSE IF key \in m.inactive_keys THEN OkNone
    ELSE IF key \in DOMAIN m.keys
         THEN IF key \in m.rate_limited_keys THEN ErrText("Rate limit exceeded")
              ELSE OkSome(m.keys[key])
    ELSE OkNone

\* *counts.entry(key).or_insert(0) += 1 (lines 64-66)
count_call(call_counts, key) ==
    IF key \in DOMAIN call_counts
    THEN [call_counts EXCEPT ![key] = @ + 1]
    ELSE [k \in DOMAIN call_counts \cup {key} |->
            IF k = key THEN 1 ELSE call_counts[k]]

\* get_call_count (lines 50-52)
get_call_count(call_counts, key) ==
    IF key \in DOMAIN call_counts THEN call_counts[key] ELSE 0

\* the match of the handlers on the result of validate_key (handlers.rs
\* 145-162): which of the four outcomes it is
outcome(result) ==
    IF result.ok THEN (IF IsSome(result.info) THEN "KeyInfo" ELSE "none")
    ELSE IF result.err = "Rate limit exceeded" THEN "rate_limited" ELSE "error"

\* the stores the tests build with add_key, set_inactive, set_error and
\* the rate_limited_keys list, before any call
MockStores ==
    {[keys |-> keys, inactive_keys |-> inactive, rate_limited_keys |-> limited,
      error_keys |-> errors, call_counts |-> <<>>, last |-> None] :
        keys \in {<<>>} \cup {[k \in {"K"} |-> KeyInfo(o, l)] : o \in {"owner1"}, l \in 1 .. MaxLimit},
        inactive \in SUBSET {"K"},
        limited \in SUBSET {"K"},
        errors \in {<<>>} \cup {[k \in {"K"} |-> t] : t \in ErrorTexts}}

InitMock ==
    /\ Boot(ConfigFiles[1])
    /\ req = NoRequest
    /\ session = "off"
    /\ ext = "off"
    /\ mock \in MockStores
    /\ KsOff

\* one call of validate_key(key) on the store
mock_validate_key ==
    /\ \E key \in MockKeys :
         /\ get_call_count(mock.call_counts, key) < MaxCalls
         /\ mock' = [mock EXCEPT
                       !.call_counts = count_call(@, key),
                       !.last = Some([key |-> key,
                                      count_before |-> get_call_count(mock.call_counts, key),
                                      result |-> mock_result(mock, key)])]
    /\ UNCHANGED <<state, flags, statuses, monitor, reloads, reload_log, lastSel,
                   req, session, ext, ksVars>>

NextMock == mock_validate_key

MockSpec == InitMock /\ [][NextMock]_vars

\* C38: a call of the test store returns the injected error if there is
\* one; otherwise none for an inactive or unknown key, rate-limited list
\* or not; otherwise "Rate limit exceeded", which the handlers answer with
\* 429, for a known key in the rate-limited list; otherwise the stored
\* owner and rate_limit. And the call raised the key's call count by one.
C38_MockPrecedence ==
    IsSome(mock.last) =>
        LET key == Unwrap(mock.last).key
            result == Unwrap(mock.last).result
        IN  /\ get_call_count(mock.call_counts, key) = Unwrap(mock.last).count_before + 1
            /\ IF key \in DOMAIN mock.error_keys
               THEN result = ErrText(mock.error_keys[key]) /\ outcome(result) \in {"error", "rate_limited"}
               ELSE IF key \in mock.inactive_keys \/ key \notin DOMAIN mock.keys
                    THEN result = OkNone /\ outcome(result) = "none"
               ELSE IF key \in mock.rate_limited_keys
                    THEN /\ result = ErrText("Rate limit exceeded")
                         /\ gate_response(outcome(result)).status = 429
               ELSE /\ result = OkSome(mock.keys[key])
                    /\ Unwrap(result.info).owner = "owner1"
                    /\ outcome(result) = "KeyInfo"

\* an inactive key of the rate-limited list was answered none, on its
\* second call
C38_Witness ==
    /\ IsSome(mock.last)
    /\ Unwrap(mock.last).key = "K" /\ Unwrap(mock.last).result = OkNone
    /\ "K" \in DOMAIN mock.keys /\ "K" \in mock.inactive_keys
    /\ "K" \in mock.rate_limited_keys
    /\ mock.call_counts["K"] = 2

----------------------------------------------------------------------------
(* The status map and the labels of the current table, checked under Spec *)

\* C39: the status map holds a record for every label of the current
\* routing table, so that update_status stores what a probe of an upstream
\* of the current table found and /health reports no default status in
\* place of a record.
C39_RecordForEveryLabel ==
    \A i \in 1 .. Len(state.backends) : IsSome(RecordOf(i))

----------------------------------------------------------------------------
(* The window of the rate limit under rejected calls, checked under KsSpec *)

\* the clock advanced: the entry of the cache aged or left the cache
ClockAdvanced ==
    /\ IsSome(cache)
    /\ cache' = None \/ Unwrap(cache').age > Unwrap(cache).age

C40_Step == (ClockAdvanced /\ IsSome(redis_db.counter)) => redis_db'.counter = None

\* the calls of the present window that were answered rate_limited
Rejected == {n \in 1 .. Len(audit.window) : audit.window[n].result = "rate_limited"}

\* C40: a call answered rate_limited has incremented the counter but has
\* not set its expiry: the expiry in force is the one set by the call that
\* created the counter, so the counter is gone once a second has passed
\* since that call, however many calls were rejected meanwhile, and the
\* first call of the next window is accepted.
C40_RejectedCallsDoNotExtend ==
    /\ [](/\ IsSome(redis_db.counter) =>
                /\ Unwrap(redis_db.counter).expire = Some(CounterTtl)
                /\ Unwrap(redis_db.counter).expire_by = 1
                /\ Unwrap(redis_db.counter).count = Len(audit.window)
          /\ \A n \in Rejected : audit.window[n].count > 1
          /\ Len(audit.window) >= 1 => audit.window[1].result = "KeyInfo")
    /\ [][C40_Step]_vars

\* in a window after the first one, calls were rejected and the expiry is
\* still that of the window's first call
C40_Witness ==
    /\ audit.renewed
    /\ IsSome(redis_db.counter)
    /\ Cardinality(Rejected) >= 2
    /\ Unwrap(redis_db.counter).expire_by = 1

====
